---- MODULE Spec2Model ----
(***************************************************************************)
(* Model of the webhook bot: the two webhook handlers (bot.py and          *)
(* github_app.py), the slash-command interpreter they embed, and the       *)
(* analyzers of utils.py.  Text is modelled as sequences of one-character  *)
(* strings so that strip/lower/split/startswith act as they do in Python.  *)
(***************************************************************************)
EXTENDS Integers, Sequences, FiniteSets, TLC

(***************************************************************************)
(* Python string primitives                                                *)
(***************************************************************************)
WS == {" ", "\t", "\n"}

UpperChars == <<"A", "B", "C", "D", "E", "F", "G", "H", "I", "J", "K", "L", "M", "N", "O", "P", "Q", "R", "S", "T", "U", "V", "W", "X", "Y", "Z">>
LowerChars == <<"a", "b", "c", "d", "e", "f", "g", "h", "i", "j", "k", "l", "m", "n", "o", "p", "q", "r", "s", "t", "u", "v", "w", "x", "y", "z">>

LowerChar(c) ==
    IF \E i \in 1..Len(UpperChars) : UpperChars[i] = c
    THEN LowerChars[CHOOSE i \in 1..Len(UpperChars) : UpperChars[i] = c]
    ELSE c

\* str.lower()
Lower(s) == [i \in 1..Len(s) |-> LowerChar(s[i])]

\* str.startswith(p)
StartsWith(s, p) == Len(s) >= Len(p) /\ SubSeq(s, 1, Len(p)) = p

\* str.endswith(p)
EndsWith(s, p) == Len(s) >= Len(p) /\ SubSeq(s, Len(s) - Len(p) + 1, Len(s)) = p

\* s.find(sub, from): least index >= from where sub occurs, 0 when there is none
Find(s, sub, from) ==
    LET hits == {i \in from..(Len(s) - Len(sub) + 1) : SubSeq(s, i, i + Len(sub) - 1) = sub}
    IN  IF hits = {} THEN 0 ELSE CHOOSE i \in hits : \A j \in hits : i <= j

\* sub in s
Contains(s, sub) == Find(s, sub, 1) # 0

\* str.strip()
Strip(s) ==
    LET keep == {i \in 1..Len(s) : s[i] \notin WS}
    IN  IF keep = {} THEN <<>>
        ELSE SubSeq(s, CHOOSE i \in keep : \A j \in keep : i <= j,
                       CHOOSE i \in keep : \A j \in keep : i >= j)

\* s.split(sep) for a non-empty separator
RECURSIVE Split(_, _)
Split(s, sep) ==
    LET i == Find(s, sep, 1)
    IN  IF i = 0 THEN <<s>>
        ELSE <<SubSeq(s, 1, i - 1)>> \o Split(SubSeq(s, i + Len(sep), Len(s)), sep)

\* s.split(): the runs of non-whitespace characters
RECURSIVE SplitWs(_)
SplitWs(s) ==
    LET keep == {i \in 1..Len(s) : s[i] \notin WS}
    IN  IF keep = {} THEN <<>>
        ELSE LET a == CHOOSE i \in keep : \A j \in keep : i <= j
                 stop == {i \in a..Len(s) : s[i] \in WS}
                 b == IF stop = {} THEN Len(s) + 1
                      ELSE CHOOSE i \in stop : \A j \in stop : i <= j
             IN  <<SubSeq(s, a, b - 1)>> \o SplitWs(SubSeq(s, b, Len(s)))

(***************************************************************************)
(* Pattern catalogue: the literals of the rule chains                      *)
(***************************************************************************)
\* the command tokens compared against cmd in webhook()
t_slash == <<"/">>
t_at == <<"@">>
t_help == <<"/", "h", "e", "l", "p">>
t_assign == <<"/", "a", "s", "s", "i", "g", "n">>
t_label == <<"/", "l", "a", "b", "e", "l">>
t_label_sp == <<"/", "l", "a", "b", "e", "l", " ">>
t_close == <<"/", "c", "l", "o", "s", "e">>
t_changelog == <<"/", "c", "h", "a", "n", "g", "e", "l", "o", "g">>
t_joke == <<"/", "j", "o", "k", "e">>
t_motivate == <<"/", "m", "o", "t", "i", "v", "a", "t", "e">>
t_dot == <<".">>

\* bot.py auto_label_pr: the language chain (if/elif, first match wins)
BotLanguageRules == <<
    [ends |-> <<<<".", "p", "y">>, <<".", "p", "y", "x">>>>, has |-> <<>>, eq |-> <<>>, label |-> "python"],
    [ends |-> <<<<".", "j", "s">>, <<".", "j", "s", "x">>, <<".", "t", "s">>, <<".", "t", "s", "x">>>>, has |-> <<>>, eq |-> <<>>, label |-> "javascript"],
    [ends |-> <<<<".", "j", "a", "v", "a">>, <<".", "k", "t">>>>, has |-> <<>>, eq |-> <<>>, label |-> "java"],
    [ends |-> <<<<".", "c", "p", "p">>, <<".", "c">>, <<".", "h">>>>, has |-> <<>>, eq |-> <<>>, label |-> "c++"],
    [ends |-> <<<<".", "g", "o">>>>, has |-> <<>>, eq |-> <<>>, label |-> "golang"],
    [ends |-> <<<<".", "r", "s">>>>, has |-> <<>>, eq |-> <<>>, label |-> "rust"],
    [ends |-> <<<<".", "r", "b">>>>, has |-> <<>>, eq |-> <<>>, label |-> "ruby"],
    [ends |-> <<<<".", "p", "h", "p">>>>, has |-> <<>>, eq |-> <<>>, label |-> "php"],
    [ends |-> <<<<".", "s", "w", "i", "f", "t">>>>, has |-> <<>>, eq |-> <<>>, label |-> "swift"] >>

\* bot.py auto_label_pr: the file-type chain (if/elif, first match wins)
BotFileTypeRules == <<
    [ends |-> <<<<".", "m", "d">>, <<".", "t", "x", "t">>, <<".", "r", "s", "t">>>>, has |-> <<>>, eq |-> <<>>, label |-> "documentation"],
    [ends |-> <<<<".", "t", "e", "s", "t", ".", "j", "s">>, <<"_", "t", "e", "s", "t", ".", "p", "y">>>>, has |-> <<<<"t", "e", "s", "t">>>>, eq |-> <<>>, label |-> "tests"],
    [ends |-> <<<<".", "y", "m", "l">>, <<".", "y", "a", "m", "l">>, <<".", "j", "s", "o", "n">>, <<".", "t", "o", "m", "l">>>>, has |-> <<>>, eq |-> <<>>, label |-> "config"],
    [ends |-> <<<<".", "c", "s", "s">>, <<".", "s", "c", "s", "s">>, <<".", "s", "a", "s", "s">>>>, has |-> <<>>, eq |-> <<>>, label |-> "styling"],
    [ends |-> <<<<".", "h", "t", "m", "l">>, <<".", "h", "t", "m">>>>, has |-> <<>>, eq |-> <<>>, label |-> "frontend"],
    [ends |-> <<>>, has |-> <<<<"d", "o", "c", "k", "e", "r">>>>, eq |-> <<<<"d", "o", "c", "k", "e", "r", "f", "i", "l", "e">>>>, label |-> "docker"],
    [ends |-> <<<<".", "s", "q", "l">>>>, has |-> <<>>, eq |-> <<>>, label |-> "database"],
    [ends |-> <<>>, has |-> <<<<"a", "p", "i">>, <<"e", "n", "d", "p", "o", "i", "n", "t">>>>, eq |-> <<>>, label |-> "api"],
    [ends |-> <<>>, has |-> <<<<"s", "e", "c", "u", "r", "i", "t", "y">>, <<"a", "u", "t", "h">>>>, eq |-> <<>>, label |-> "security"],
    [ends |-> <<>>, has |-> <<<<"p", "e", "r", "f", "o", "r", "m", "a", "n", "c", "e">>, <<"o", "p", "t", "i", "m", "i", "z", "e">>>>, eq |-> <<>>, label |-> "performance"] >>

\* bot.py auto_label_pr: the directory chain (if/elif, first match wins)
BotDirectoryRules == <<
    [ends |-> <<>>, has |-> <<<<"/", "f", "r", "o", "n", "t", "e", "n", "d", "/">>, <<"/", "u", "i", "/">>>>, eq |-> <<>>, label |-> "frontend"],
    [ends |-> <<>>, has |-> <<<<"/", "b", "a", "c", "k", "e", "n", "d", "/">>, <<"/", "s", "e", "r", "v", "e", "r", "/">>>>, eq |-> <<>>, label |-> "backend"],
    [ends |-> <<>>, has |-> <<<<"/", "m", "o", "b", "i", "l", "e", "/">>, <<"/", "a", "n", "d", "r", "o", "i", "d", "/">>, <<"/", "i", "o", "s", "/">>>>, eq |-> <<>>, label |-> "mobile"],
    [ends |-> <<>>, has |-> <<<<"/", "i", "n", "f", "r", "a", "/">>, <<"/", "d", "e", "p", "l", "o", "y", "/">>>>, eq |-> <<>>, label |-> "infrastructure"] >>

\* config.py LANGUAGE_LABELS: extension -> label
LANGUAGE_LABELS == <<
    [ext |-> <<".", "p", "y">>, label |-> "python"], [ext |-> <<".", "p", "y", "x">>, label |-> "python"],
    [ext |-> <<".", "j", "s">>, label |-> "javascript"], [ext |-> <<".", "j", "s", "x">>, label |-> "javascript"],
    [ext |-> <<".", "t", "s">>, label |-> "typescript"], [ext |-> <<".", "t", "s", "x">>, label |-> "typescript"],
    [ext |-> <<".", "j", "a", "v", "a">>, label |-> "java"], [ext |-> <<".", "k", "t">>, label |-> "kotlin"],
    [ext |-> <<".", "c", "p", "p">>, label |-> "c++"], [ext |-> <<".", "c">>, label |-> "c++"], [ext |-> <<".", "h">>, label |-> "c++"],
    [ext |-> <<".", "g", "o">>, label |-> "golang"],
    [ext |-> <<".", "r", "s">>, label |-> "rust"],
    [ext |-> <<".", "r", "b">>, label |-> "ruby"],
    [ext |-> <<".", "p", "h", "p">>, label |-> "php"],
    [ext |-> <<".", "s", "w", "i", "f", "t">>, label |-> "swift"],
    [ext |-> <<".", "c", "s">>, label |-> "c#"],
    [ext |-> <<".", "s", "c", "a", "l", "a">>, label |-> "scala"],
    [ext |-> <<".", "r">>, label |-> "r"] >>

\* config.py CONTENT_LABELS: label -> fragments
CONTENT_LABELS == <<
    [label |-> "documentation", extensions |-> <<<<".", "m", "d">>, <<".", "t", "x", "t">>, <<".", "r", "s", "t">>, <<".", "a", "d", "o", "c">>>>],
    [label |-> "config", extensions |-> <<<<".", "y", "m", "l">>, <<".", "y", "a", "m", "l">>, <<".", "j", "s", "o", "n">>, <<".", "t", "o", "m", "l">>, <<".", "i", "n", "i">>, <<".", "c", "f", "g">>>>],
    [label |-> "styling", extensions |-> <<<<".", "c", "s", "s">>, <<".", "s", "c", "s", "s">>, <<".", "s", "a", "s", "s">>, <<".", "l", "e", "s", "s">>>>],
    [label |-> "frontend", extensions |-> <<<<".", "h", "t", "m", "l">>, <<".", "h", "t", "m">>, <<".", "v", "u", "e">>, <<".", "s", "v", "e", "l", "t", "e">>>>],
    [label |-> "database", extensions |-> <<<<".", "s", "q", "l">>, <<".", "d", "b">>, <<".", "s", "q", "l", "i", "t", "e">>>>],
    [label |-> "docker", extensions |-> <<<<"d", "o", "c", "k", "e", "r", "f", "i", "l", "e">>, <<"d", "o", "c", "k", "e", "r", "-", "c", "o", "m", "p", "o", "s", "e">>>>],
    [label |-> "ci/cd", extensions |-> <<<<".", "g", "i", "t", "h", "u", "b">>, <<".", "g", "i", "t", "l", "a", "b", "-", "c", "i">>, <<".", "t", "r", "a", "v", "i", "s">>, <<".", "c", "i", "r", "c", "l", "e", "c", "i">>>>] >>

\* config.py SECURITY_PATTERNS, in dictionary order.  Each regular expression
\* has one of three shapes, named here with its keyword:
\*   "assign": kw\s*=\s*["'][^"']+["']     "call": kw\s*\(
\*   "concat": kw\s*\(\s*["'].*\+.*["']
SECURITY_PATTERNS == <<
    [category |-> "hardcoded_secrets", patterns |-> <<
        [shape |-> "assign", kw |-> <<"p", "a", "s", "s", "w", "o", "r", "d">>], [shape |-> "assign", kw |-> <<"a", "p", "i", "_", "k", "e", "y">>],
        [shape |-> "assign", kw |-> <<"s", "e", "c", "r", "e", "t">>], [shape |-> "assign", kw |-> <<"t", "o", "k", "e", "n">>] >>],
    [category |-> "dangerous_functions", patterns |-> <<
        [shape |-> "call", kw |-> <<"e", "v", "a", "l">>], [shape |-> "call", kw |-> <<"e", "x", "e", "c">>],
        [shape |-> "call", kw |-> <<"s", "y", "s", "t", "e", "m">>], [shape |-> "call", kw |-> <<"s", "h", "e", "l", "l", "_", "e", "x", "e", "c">>] >>],
    [category |-> "sql_injection", patterns |-> <<
        [shape |-> "concat", kw |-> <<"e", "x", "e", "c", "u", "t", "e">>], [shape |-> "concat", kw |-> <<"q", "u", "e", "r", "y">>] >>] >>

\* bot.py security_scan_pr: (all of `all`) and (one of `any`, when `any` is non-empty)
BotSecurityChecks == <<
    [all |-> <<<<"p", "a", "s", "s", "w", "o", "r", "d">>, <<"=">>>>, any |-> <<>>, issue |-> "password"],
    [all |-> <<>>, any |-> <<<<"a", "p", "i", "_", "k", "e", "y">>, <<"s", "e", "c", "r", "e", "t">>>>, issue |-> "secret"],
    [all |-> <<>>, any |-> <<<<"e", "v", "a", "l", "(">>, <<"e", "x", "e", "c", "(">>>>, issue |-> "eval"],
    [all |-> <<<<"s", "q", "l">>>>, any |-> <<<<"d", "r", "o", "p">>, <<"d", "e", "l", "e", "t", "e">>>>, issue |-> "sql"] >>

\* bot.py check_pr_requirements: the suffixes of code and of documentation
CodeSuffixes == <<<<".", "p", "y">>, <<".", "j", "s">>, <<".", "t", "s">>, <<".", "j", "a", "v", "a">>, <<".", "g", "o">>>>
DocSuffixes == <<<<".", "m", "d">>, <<".", "r", "s", "t">>, <<".", "t", "x", "t">>>>
w_test == <<"t", "e", "s", "t">>

\* utils.py generate_pr_summary: the extensions listed as languages
SummaryLanguages == <<<<".", "p", "y">>, <<".", "j", "s">>, <<".", "t", "s">>, <<".", "j", "a", "v", "a">>, <<".", "g", "o">>, <<".", "r", "s">>, <<".", "r", "b">>>>

\* the keyword rules for issue titles (github_app.py and bot.py)
AppIssueRules == <<
    [words |-> <<<<"b", "u", "g">>, <<"e", "r", "r", "o", "r">>, <<"b", "r", "o", "k", "e", "n">>, <<"c", "r", "a", "s", "h">>>>, label |-> "bug"],
    [words |-> <<<<"f", "e", "a", "t", "u", "r", "e">>, <<"e", "n", "h", "a", "n", "c", "e", "m", "e", "n", "t">>, <<"a", "d", "d">>>>, label |-> "enhancement"],
    [words |-> <<<<"q", "u", "e", "s", "t", "i", "o", "n">>, <<"?">>, <<"h", "o", "w">>>>, label |-> "question"],
    [words |-> <<<<"u", "r", "g", "e", "n", "t">>, <<"c", "r", "i", "t", "i", "c", "a", "l">>, <<"i", "m", "p", "o", "r", "t", "a", "n", "t">>>>, label |-> "priority: high"] >>

BotIssueRules == <<
    [words |-> <<<<"b", "u", "g">>, <<"e", "r", "r", "o", "r">>, <<"b", "r", "o", "k", "e", "n">>>>, label |-> "bug"],
    [words |-> <<<<"f", "e", "a", "t", "u", "r", "e">>, <<"e", "n", "h", "a", "n", "c", "e", "m", "e", "n", "t">>>>, label |-> "enhancement"],
    [words |-> <<<<"q", "u", "e", "s", "t", "i", "o", "n">>, <<"?">>>>, label |-> "question"],
    [words |-> <<<<"h", "e", "l", "p">>, <<"s", "u", "p", "p", "o", "r", "t">>>>, label |-> "help wanted"],
    [words |-> <<<<"u", "r", "g", "e", "n", "t">>, <<"c", "r", "i", "t", "i", "c", "a", "l">>>>, label |-> "priority: high"] >>

(***************************************************************************)
(* Helpers over sequences                                                  *)
(***************************************************************************)
SeqToSet(s) == {s[i] : i \in 1..Len(s)}

RECURSIVE Flatten(_)
Flatten(ss) == IF ss = <<>> THEN <<>> ELSE Head(ss) \o Flatten(Tail(ss))

\* s[:n]
Take(s, n) == SubSeq(s, 1, IF Len(s) < n THEN Len(s) ELSE n)

Least(S) == CHOOSE i \in S : \A j \in S : i <= j

EndsWithAny(s, l) == \E i \in 1..Len(l) : EndsWith(s, l[i])
ContainsAny(s, l) == \E i \in 1..Len(l) : Contains(s, l[i])
EqAny(s, l) == \E i \in 1..Len(l) : s = l[i]

(***************************************************************************)
(* utils.py                                                                *)
(***************************************************************************)
\* sum(f.get('changes', 0) for f in files)
RECURSIVE SumChanges(_)
SumChanges(files) ==
    IF files = <<>> THEN 0 ELSE Head(files).changes + SumChanges(Tail(files))

\* as LinesScore, but with the thresholds included in the upper tier
LinesScoreInclusive(total_lines) ==
    IF total_lines >= 500 THEN 3
    ELSE IF total_lines >= 200 THEN 2
    ELSE IF total_lines >= 50 THEN 1
    ELSE 0

LinesScore(total_lines) ==
    IF total_lines > 500 THEN 3
    ELSE IF total_lines > 200 THEN 2
    ELSE IF total_lines > 50 THEN 1
    ELSE 0

FilesScore(file_count) ==
    IF file_count > 10 THEN 2
    ELSE IF file_count > 5 THEN 1
    ELSE 0

RiskLevel(complexity_score) ==
    IF complexity_score >= 4 THEN "high"
    ELSE IF complexity_score >= 2 THEN "medium"
    ELSE "low"

analyze_code_complexity(files) ==
    LET total_lines == SumChanges(files)
        file_count == Len(files)
        complexity_score == LinesScore(total_lines) + FilesScore(file_count)
    IN  [score |-> complexity_score,
         total_lines |-> total_lines,
         file_count |-> file_count,
         risk_level |-> RiskLevel(complexity_score)]

\* the position after \s* starting at i
SkipWs(s, i) ==
    LET stop == {j \in i..Len(s) : s[j] \notin WS}
    IN  IF stop = {} THEN Len(s) + 1 ELSE Least(stop)

Quotes == {"\"", "'"}

At(s, i) == IF i >= 1 /\ i <= Len(s) THEN s[i] ELSE ""

\* kw\s*=\s*["'][^"']+["'] matched at position i
MatchAssignAt(s, i, kw) ==
    /\ i + Len(kw) - 1 <= Len(s)
    /\ SubSeq(s, i, i + Len(kw) - 1) = kw
    /\ LET j == SkipWs(s, i + Len(kw))
           k == SkipWs(s, j + 1)
       IN  /\ At(s, j) = "="
           /\ At(s, k) \in Quotes
           /\ k + 1 <= Len(s)
           /\ s[k + 1] \notin Quotes
           /\ \E r \in (k + 2)..Len(s) : s[r] \in Quotes

\* kw\s*\( matched at position i
MatchCallAt(s, i, kw) ==
    /\ i + Len(kw) - 1 <= Len(s)
    /\ SubSeq(s, i, i + Len(kw) - 1) = kw
    /\ At(s, SkipWs(s, i + Len(kw))) = "("

\* kw\s*\(\s*["'].*\+.*["'] matched at position i ('.' does not match a newline)
MatchConcatAt(s, i, kw) ==
    /\ i + Len(kw) - 1 <= Len(s)
    /\ SubSeq(s, i, i + Len(kw) - 1) = kw
    /\ LET j == SkipWs(s, i + Len(kw))
           k == SkipWs(s, j + 1)
       IN  /\ At(s, j) = "("
           /\ At(s, k) \in Quotes
           /\ \E p \in (k + 1)..Len(s) : \E r \in (p + 1)..Len(s) :
                /\ s[p] = "+"
                /\ s[r] \in Quotes
                /\ \A m \in (k + 1)..(r - 1) : s[m] # "\n"

\* re.search(pattern, s)
re_search(pattern, s) ==
    \E i \in 1..Len(s) :
        IF pattern.shape = "assign" THEN MatchAssignAt(s, i, pattern.kw)
        ELSE IF pattern.shape = "call" THEN MatchCallAt(s, i, pattern.kw)
        ELSE MatchConcatAt(s, i, pattern.kw)

Severity(category) == IF category = "hardcoded_secrets" THEN "high" ELSE "medium"

\* as FileVulnerabilities, but reporting a category once per file
FileVulnerabilitiesOncePerCategory(file) ==
    IF file.patch = <<>> THEN <<>>
    ELSE LET patch_content == Lower(file.patch)
         IN  Flatten([c \in 1..Len(SECURITY_PATTERNS) |->
               IF \E p \in 1..Len(SECURITY_PATTERNS[c].patterns) :
                      re_search(SECURITY_PATTERNS[c].patterns[p], patch_content)
               THEN << [type |-> SECURITY_PATTERNS[c].category,
                        file |-> file.filename,
                        severity |-> Severity(SECURITY_PATTERNS[c].category)] >>
               ELSE <<>>])

\* the findings of one file: categories in catalogue order, patterns in list order
FileVulnerabilities(file) ==
    IF file.patch = <<>> THEN <<>>
    ELSE LET patch_content == Lower(file.patch)
         IN  Flatten([c \in 1..Len(SECURITY_PATTERNS) |->
               Flatten([p \in 1..Len(SECURITY_PATTERNS[c].patterns) |->
                 IF re_search(SECURITY_PATTERNS[c].patterns[p], patch_content)
                 THEN << [type |-> SECURITY_PATTERNS[c].category,
                          file |-> file.filename,
                          severity |-> Severity(SECURITY_PATTERNS[c].category)] >>
                 ELSE <<>>])])

scan_for_vulnerabilities(files) ==
    Flatten([i \in 1..Len(files) |-> FileVulnerabilities(files[i])])

\* the extension generate_pr_summary reads off a file name
SummaryExt(filename) ==
    IF Contains(filename, t_dot)
    THEN LET parts == Split(filename, t_dot) IN t_dot \o parts[Len(parts)]
    ELSE <<>>

\* the report of generate_pr_summary, kept as the values it formats; the list of
\* files with breaking-change patterns is a part of the text that is left out
generate_pr_summary(files) ==
    LET complexity == analyze_code_complexity(files)
    IN  [file_count |-> complexity.file_count,
         total_lines |-> complexity.total_lines,
         complexity |-> complexity.risk_level,
         languages |-> {SummaryExt(files[i].filename) : i \in 1..Len(files)}
                          \cap SeqToSet(SummaryLanguages)]

(***************************************************************************)
(* The labelling rules of the two handlers                                 *)
(***************************************************************************)
RuleMatches(rule, filename) ==
    \/ EndsWithAny(filename, rule.ends)
    \/ ContainsAny(filename, rule.has)
    \/ EqAny(filename, rule.eq)

\* as FirstMatch, but every rule tested with an `if` of its own
FirstMatchEveryRule(rules, filename) ==
    {rules[i].label : i \in {j \in 1..Len(rules) : RuleMatches(rules[j], filename)}}

\* an if/elif chain: the label of the first rule that matches, if any
FirstMatch(rules, filename) ==
    LET hits == {i \in 1..Len(rules) : RuleMatches(rules[i], filename)}
    IN  IF hits = {} THEN {} ELSE {rules[Least(hits)].label}

\* as BotSizeLabel, but with the thresholds included in the upper tier
BotSizeLabelInclusive(lines_changed) ==
    IF lines_changed >= 500 THEN "large"
    ELSE IF lines_changed >= 100 THEN "medium"
    ELSE "small"

BotSizeLabel(lines_changed) ==
    IF lines_changed > 500 THEN "large"
    ELSE IF lines_changed > 100 THEN "medium"
    ELSE "small"

BotFileLabels(file) ==
    LET filename == Lower(file.filename)
    IN  FirstMatch(BotLanguageRules, filename)
          \cup FirstMatch(BotFileTypeRules, filename)
          \cup FirstMatch(BotDirectoryRules, filename)

BotLabels(files) ==
    UNION {BotFileLabels(files[i]) : i \in 1..Len(files)}
      \cup {BotSizeLabel(SumChanges(files))}

AppSizeLabel(lines_changed) ==
    IF lines_changed > 500 THEN "size/large"
    ELSE IF lines_changed > 100 THEN "size/medium"
    ELSE "size/small"

AppFileLabels(file) ==
    LET filename == Lower(file.filename)
        ext == IF Contains(filename, t_dot)
               THEN LET parts == Split(filename, t_dot) IN t_dot \o parts[Len(parts)]
               ELSE <<>>
    IN  {LANGUAGE_LABELS[i].label : i \in {j \in 1..Len(LANGUAGE_LABELS) : LANGUAGE_LABELS[j].ext = ext}}
          \cup {CONTENT_LABELS[i].label : i \in {j \in 1..Len(CONTENT_LABELS) :
                   \E e \in 1..Len(CONTENT_LABELS[j].extensions) :
                       \/ EndsWith(filename, CONTENT_LABELS[j].extensions[e])
                       \/ Contains(filename, CONTENT_LABELS[j].extensions[e])}}

AppLabels(files) ==
    UNION {AppFileLabels(files[i]) : i \in 1..Len(files)}
      \cup {AppSizeLabel(SumChanges(files))}

\* the label set auto_label_pr submits
auto_label_pr(v, files) == IF v = "app" THEN AppLabels(files) ELSE BotLabels(files)

\* bot.py security_scan_pr: one entry per check that fires, per file with a patch
BotCheckFires(check, patch) ==
    /\ \A i \in 1..Len(check.all) : Contains(patch, check.all[i])
    /\ check.any = <<>> \/ ContainsAny(patch, check.any)

security_scan_pr(files) ==
    Flatten([i \in 1..Len(files) |->
        IF files[i].patch = <<>> THEN <<>>
        ELSE Flatten([c \in 1..Len(BotSecurityChecks) |->
               IF BotCheckFires(BotSecurityChecks[c], Lower(files[i].patch))
               THEN << [issue |-> BotSecurityChecks[c].issue, file |-> files[i].filename] >>
               ELSE <<>>])])

\* the security findings a handler comments on
SecurityFindings(v, files) ==
    IF v = "app" THEN scan_for_vulnerabilities(files) ELSE security_scan_pr(files)

\* bot.py check_pr_requirements: the issues it lists
check_pr_requirements(files) ==
    LET idx == 1..Len(files)
        has_tests == \E i \in idx : Contains(Lower(files[i].filename), w_test)
        has_code == \E i \in idx : EndsWithAny(files[i].filename, CodeSuffixes)
        large_files == Flatten([i \in idx |->
                          IF files[i].changes > 300 THEN <<files[i].filename>> ELSE <<>>])
        has_docs == \E i \in idx : EndsWithAny(files[i].filename, DocSuffixes)
    IN  (IF has_code /\ ~has_tests THEN << [issue |-> "tests", files |-> <<>>] >> ELSE <<>>)
        \o (IF large_files # <<>>
            THEN << [issue |-> "large", files |-> Take(large_files, 3)] >> ELSE <<>>)
        \o (IF Len(files) > 5 /\ ~has_docs
            THEN << [issue |-> "docs", files |-> <<>>] >> ELSE <<>>)

\* the labels of an opened issue, in the order the rules append them
IssueRules(v) == IF v = "app" THEN AppIssueRules ELSE BotIssueRules

\* as issue_labels, but the rules forming one if/elif chain
issue_labels_first_rule(v, issue_title) ==
    LET title == Lower(issue_title)
        rules == IssueRules(v)
        hits == {r \in 1..Len(rules) : ContainsAny(title, rules[r].words)}
    IN  IF hits = {} THEN <<>> ELSE <<rules[Least(hits)].label>>

issue_labels(v, issue_title) ==
    LET title == Lower(issue_title)
        rules == IssueRules(v)
    IN  Flatten([r \in 1..Len(rules) |->
          IF ContainsAny(title, rules[r].words) THEN <<rules[r].label>> ELSE <<>>])

(***************************************************************************)
(* The slash-command interpreter embedded in webhook()                     *)
(***************************************************************************)
\* cmd = comment.lower().split()[0], for a stripped comment that starts with '/'
Cmd(comment) == SplitWs(Lower(comment))[1]

\* the branch of the if/elif chain that a comment selects
CommandBranch(comment) ==
    LET cmd == Cmd(comment)
    IN  IF cmd = t_help THEN "help"
        ELSE IF StartsWith(cmd, t_assign) THEN "assign"
        ELSE IF StartsWith(cmd, t_label) THEN "label"
        ELSE IF cmd = t_close THEN "close"
        ELSE IF cmd = t_changelog THEN "changelog"
        ELSE IF cmd = t_joke THEN "joke"
        ELSE IF cmd = t_motivate THEN "motivate"
        ELSE "none"

\* comment.split('@')[1].split()[0] raises IndexError when nothing follows the '@'
AssigneeRaises(comment) ==
    LET parts == Split(comment, t_at)
    IN  Len(parts) < 2 \/ SplitWs(parts[2]) = <<>>

Assignee(comment) == SplitWs(Split(comment, t_at)[2])[1]

\* comment.split('/label ')[1] raises IndexError when the token does not occur
LabelRaises(comment) == Len(Split(comment, t_label_sp)) < 2

LabelArg(comment) == Strip(Split(comment, t_label_sp)[2])

(***************************************************************************)
(* Inputs: the deliveries and the platform's answers the model draws from  *)
(***************************************************************************)
MaxFailures == 1
MaxPrs == 2

Author == "dev"
NoAuthor == "none"

SampleBodies == {
    <<"/", "h", "e", "l", "p">>, <<" ", " ", "/", "H", "e", "l", "p", "\n">>, <<"/", "a", "s", "s", "i", "g", "n", " ", "@", "b", "o", "b">>, <<"/", "a", "s", "s", "i", "g", "n", " ", "@", "a", "l", "i", "c", "e", " ", "e", "x", "t", "r", "a", " ", "t", "e", "x", "t">>, <<"/", "a", "s", "s", "i", "g", "n">>,
    <<"/", "a", "s", "s", "i", "g", "n", " ", "b", "o", "b">>, <<"/", "a", "s", "s", "i", "g", "n", " ", "@">>, <<"/", "a", "s", "s", "i", "g", "n", "e", "e", " ", "@", "b", "o", "b">>, <<"/", "l", "a", "b", "e", "l", " ", "b", "u", "g">>, <<"/", "l", "a", "b", "e", "l", " ", " ", "g", "o", "o", "d", " ", "f", "i", "r", "s", "t", " ">>,
    <<"/", "l", "a", "b", "e", "l">>, <<"/", "L", "A", "B", "E", "L", " ", "b", "u", "g">>, <<"/", "l", "a", "b", "e", "l", "s", " ", "x">>, <<"/", "l", "a", "b", "e", "l", " ", "a", " ", "/", "l", "a", "b", "e", "l", " ", "b">>, <<"/", "c", "l", "o", "s", "e">>, <<"/", "c", "h", "a", "n", "g", "e", "l", "o", "g">>,
    <<"/", "j", "o", "k", "e">>, <<"/", "m", "o", "t", "i", "v", "a", "t", "e">>, <<"/", "u", "n", "k", "n", "o", "w", "n", "-", "c", "m", "d">>, <<"t", "h", "a", "n", "k", "s", " ", "/", "h", "e", "l", "p">>, <<>> }

SampleTitles == {
    <<"B", "u", "g", ":", " ", "l", "o", "g", "i", "n", " ", "b", "r", "o", "k", "e", "n">>, <<"A", "d", "d", " ", "d", "a", "r", "k", " ", "m", "o", "d", "e", " ", "f", "e", "a", "t", "u", "r", "e">>, <<"h", "o", "w", " ", "t", "o", " ", "i", "n", "s", "t", "a", "l", "l", "?">>, <<"U", "R", "G", "E", "N", "T", " ", "c", "r", "a", "s", "h">>,
    <<"C", "r", "i", "t", "i", "c", "a", "l", " ", "e", "r", "r", "o", "r", ":", " ", "h", "o", "w", " ", "t", "o", " ", "a", "d", "d", " ", "s", "u", "p", "p", "o", "r", "t", "?">>,
    <<"n", "e", "e", "d", " ", "h", "e", "l", "p">>, <<"R", "e", "f", "a", "c", "t", "o", "r", " ", "r", "e", "a", "d", "m", "e">>, <<>> }

File(name, changes, patch) == [filename |-> name, changes |-> changes, patch |-> patch]

SampleFileLists == {
    <<>>,
    << File(<<"a", "p", "p", ".", "p", "y">>, 10, <<"+", "P", "A", "S", "S", "W", "O", "R", "D", " ", "=", " ", "\"", "x", "\"">>) >>,
    << File(<<"t", "e", "s", "t", "s", "/", "T", "e", "s", "t", "_", "a", "p", "p", ".", "p", "y">>, 150, <<"+", " ", "e", "v", "a", "l", " ", "(", "d", "a", "t", "a", ")">>), File(<<"R", "E", "A", "D", "M", "E", ".", "m", "d">>, 5, <<>>) >>,
    << File(<<"c", "m", "d", "/", "s", "e", "r", "v", "e", "r", "/", "a", "p", "i", ".", "g", "o">>, 501, <<"s", "q", "l", ":", " ", "d", "r", "o", "p", " ", "t", "a", "b", "l", "e">>) >>,
    << File(<<"a", ".", "j", "s">>, 301, <<>>), File(<<"b", ".", "t", "s">>, 0, <<>>), File(<<"m", "a", "i", "n", ".", "c">>, 200, <<>>),
       File(<<"D", "o", "c", "k", "e", "r", "f", "i", "l", "e">>, 1, <<>>), File(<<"d", "e", "p", "l", "o", "y", "/", "c", "o", "n", "f", "i", "g", ".", "y", "m", "l">>, 1, <<>>),
       File(<<"s", "r", "c", "/", "f", "r", "o", "n", "t", "e", "n", "d", "/", "i", "n", "d", "e", "x", ".", "h", "t", "m", "l">>, 1, <<"+", " ", "x", " ", "=", " ", "1">>) >> }

Histories == {"none", "self", "team", "crowd"}

\* what the platform answers for the i-th changed file under a history:
\* whether the file has contents, and the authors of its recent commits
FileHistory(history, i) ==
    IF history = "none" THEN [exists |-> FALSE, commits |-> <<>>]
    ELSE IF history = "self" THEN [exists |-> TRUE, commits |-> <<Author, Author>>]
    ELSE IF history = "team"
      THEN IF i % 2 = 1 THEN [exists |-> TRUE, commits |-> <<"r1", NoAuthor, Author, "r4">>]
           ELSE [exists |-> (i # 4), commits |-> <<"r2", "r3">>]
    ELSE IF i = 1 THEN [exists |-> TRUE, commits |-> <<"r1", "r2", "r3">>]
         ELSE [exists |-> TRUE, commits |-> <<"r4", "r1", Author, "r5", "r5">>]

ClosedPr(number, merged) == [number |-> number, merged_at |-> merged]

SampleClosedPrs == {
    <<>>,
    << ClosedPr(7, TRUE), ClosedPr(6, FALSE) >>,
    << ClosedPr(9, TRUE), ClosedPr(8, TRUE), ClosedPr(7, FALSE), ClosedPr(6, TRUE),
       ClosedPr(5, TRUE), ClosedPr(4, TRUE) >> }

PullRequestDeliveries ==
    {[event |-> "pull_request", action |-> a, missing |-> m, merged |-> g,
      title |-> <<>>, body |-> <<>>] :
        a \in {"opened"}, m \in {"none", "installation", "pull_request.title"}, g \in {"false"}}
    \cup
    {[event |-> "pull_request", action |-> a, missing |-> m, merged |-> g,
      title |-> <<>>, body |-> <<>>] :
        a \in {"closed", "synchronize"}, m \in {"none", "installation"},
        g \in {"true", "false", "absent"}}

IssueDeliveries ==
    {[event |-> "issues", action |-> a, missing |-> "none", merged |-> "absent",
      title |-> t, body |-> <<>>] : a \in {"opened", "closed"}, t \in SampleTitles}
    \cup
    {[event |-> "issues", action |-> a, missing |-> m, merged |-> "absent",
      title |-> <<>>, body |-> <<>>] :
        a \in {"opened", "closed"}, m \in {"installation", "issue.title"}}

CommentDeliveries ==
    {[event |-> "issue_comment", action |-> a, missing |-> "none", merged |-> "absent",
      title |-> <<>>, body |-> b] : a \in {"created", "deleted"}, b \in SampleBodies}
    \cup
    {[event |-> "issue_comment", action |-> "created", missing |-> "installation",
      merged |-> "absent", title |-> <<>>, body |-> <<"/", "h", "e", "l", "p">>]}

OtherDeliveries ==
    {[event |-> e, action |-> a, missing |-> m, merged |-> "absent",
      title |-> <<>>, body |-> <<>>] :
        e \in {"push", "ping"}, a \in {"", "opened", "created"}, m \in {"none", "installation"}}

Deliveries == PullRequestDeliveries \cup IssueDeliveries \cup CommentDeliveries \cup OtherDeliveries

NoDelivery == [event |-> "", action |-> "", missing |-> "none", merged |-> "absent",
               title |-> <<>>, body |-> <<>>]

(***************************************************************************)
(* State                                                                   *)
(***************************************************************************)
VARIABLES
    variant,      \* which program runs: "app" (github_app.py) or "bot" (bot.py)
    openaiKey,    \* whether OPENAI_API_KEY is set
    repoHistory,  \* the commit history the platform holds for the repository
    created,      \* the platform's count of the author's pull requests
    pending,      \* the opened pull requests whose delivery has not arrived yet
    pc,           \* per handler: the step of webhook() it is at
    dlv,          \* per handler: the delivery it handles
    calls,        \* per handler: the external calls it has issued, in order
    resp,         \* per handler: the HTTP status returned, 0 while running
    fails,        \* per handler: how many of its external calls failed
    files,        \* per handler: the answer of GET .../pulls/{n}/files
    nprs,         \* per handler: len(prs) of the author's pull requests
    reviewers,    \* per handler: the set auto_assign_reviewers accumulates
    idx,          \* per handler: the file auto_assign_reviewers is at
    review,       \* per handler: the suggester's answer: "none", "empty" or "text"
    prs,          \* per handler: the closed pull requests /changelog fetched
    cxFiles,      \* the file set handed to analyze_code_complexity
    cxResult      \* its result, once computed

handlerVars == <<pc, dlv, calls, resp, fails, files, nprs, reviewers, idx, review, prs>>
envVars == <<variant, openaiKey, repoHistory, created, pending>>
cxVars == <<cxFiles, cxResult>>
vars == <<variant, openaiKey, repoHistory, created, pending, pc, dlv, calls, resp, fails, files, nprs,
          reviewers, idx, review, prs, cxFiles, cxResult>>

HandlerIds == {1, 2}

NoResult == [score |-> -1, total_lines |-> -1, file_count |-> -1, risk_level |-> "none"]

\* the state before any delivery; `spent` is how many failures of the external
\* services each handler has already used up
InitSpent(spent) ==
    /\ variant \in {"app", "bot"}
    /\ openaiKey \in BOOLEAN
    /\ repoHistory \in Histories
    /\ variant = "app" => repoHistory = "none"   \* github_app.py never reads it
    /\ created = 0
    /\ pending = {}
    /\ pc = [h \in HandlerIds |-> "idle"]
    /\ dlv = [h \in HandlerIds |-> NoDelivery]
    /\ calls = [h \in HandlerIds |-> <<>>]
    /\ resp = [h \in HandlerIds |-> 0]
    /\ fails = [h \in HandlerIds |-> spent]
    /\ files = [h \in HandlerIds |-> <<>>]
    /\ nprs = [h \in HandlerIds |-> 0]
    /\ reviewers = [h \in HandlerIds |-> {}]
    /\ idx = [h \in HandlerIds |-> 1]
    /\ review = [h \in HandlerIds |-> "none"]
    /\ prs = [h \in HandlerIds |-> <<>>]
    /\ cxFiles = <<>>
    /\ cxResult = NoResult

Init == InitSpent(0)

(***************************************************************************)
(* The building blocks of a handler step                                   *)
(***************************************************************************)
\* an external call: op is the endpoint, kind what the call is for
Call(op, kind, arg) == [op |-> op, kind |-> kind, arg |-> arg, out |-> "ok"]

\* the outcomes the next external call of handler h may have
Outcomes(h) == IF fails[h] < MaxFailures THEN {"ok", "transport", "auth"} ELSE {"ok"}

Log(h, c, o) ==
    /\ calls' = [calls EXCEPT ![h] = Append(@, [c EXCEPT !.out = o])]
    /\ fails' = [fails EXCEPT ![h] = IF o = "ok" THEN @ ELSE @ + 1]

\* control moves on; falling off the end of webhook() returns 200
Flow(h, nxt) ==
    /\ pc' = [pc EXCEPT ![h] = nxt]
    /\ resp' = [resp EXCEPT ![h] = IF nxt = "done" THEN 200 ELSE @]

\* an exception leaves webhook(): the server answers 500
Raise(h) ==
    /\ pc' = [pc EXCEPT ![h] = "done"]
    /\ resp' = [resp EXCEPT ![h] = 500]

\* github_api outside any try: a transport error propagates, an error
\* response (authorization) is returned as a dictionary nobody inspects
ApiCall(h, c, nxt) ==
    \E o \in Outcomes(h) :
        /\ Log(h, c, o)
        /\ IF o = "transport" THEN Raise(h) ELSE Flow(h, nxt)

\* a step that makes no call
Skip(h, nxt) == Flow(h, nxt) /\ UNCHANGED <<calls, fails>>

\* as OpenedSteps, but github_app.py welcoming before it scans and bot.py
\* scanning before it welcomes
OpenedStepsSwapped(v) ==
    IF v = "app" THEN <<"label", "welcome", "security", "ai", "summary">>
    ELSE <<"label", "reviewers", "security", "welcome", "requirements", "ai">>

\* the order of the automations of an opened pull request
OpenedSteps(v) ==
    IF v = "app" THEN <<"label", "security", "welcome", "ai", "summary">>
    ELSE <<"label", "reviewers", "welcome", "requirements", "security", "ai">>

After(v, step) ==
    LET steps == OpenedSteps(v)
        i == CHOOSE j \in 1..Len(steps) : steps[j] = step
    IN  IF i = Len(steps) THEN "done" ELSE steps[i + 1]

(***************************************************************************)
(* webhook(): from the delivery to the first external call                 *)
(***************************************************************************)
Goto(step) == [pc |-> step, resp |-> 0]
Respond(status) == [pc |-> "done", resp |-> status]

\* the command branches of webhook()
CommandEntry(comment) ==
    LET branch == CommandBranch(comment)
    IN  IF branch = "help" THEN Goto("cmd_help")
        ELSE IF branch = "assign"
          THEN IF ~Contains(comment, t_at) THEN Respond(200)
               ELSE IF AssigneeRaises(comment) THEN Respond(500)
               ELSE Goto("cmd_assign")
        ELSE IF branch = "label"
          THEN IF LabelRaises(comment) THEN Respond(500) ELSE Goto("cmd_label")
        ELSE IF branch = "close" THEN Goto("cmd_close")
        ELSE IF branch = "changelog" THEN Goto("cmd_changelog")
        ELSE IF branch = "joke" THEN Goto("cmd_joke")
        ELSE IF branch = "motivate" THEN Goto("cmd_motivate")
        ELSE Respond(200)

\* as IsMergedClose, but thanking for every closed pull request
IsMergedCloseAnyClose(d) == d.action = "closed"

\* elif action == 'closed' and pr.get('merged')
IsMergedClose(d) == d.action = "closed" /\ d.merged = "true"

\* as IsCommandEvent, but for every action of a comment
IsCommandEventAnyAction(d) == d.event = "issue_comment"

\* elif event == 'issue_comment' and payload['action'] == 'created'
IsCommandEvent(d) == d.event = "issue_comment" /\ d.action = "created"

\* the routing of webhook(): where a delivery d starts under program v
Entry(v, d) ==
    IF v = "app" /\ d.missing = "installation" THEN Respond(400)
    ELSE IF d.event = "pull_request"
      THEN IF d.action = "opened" THEN Goto("get_files")
           ELSE IF IsMergedClose(d) THEN Goto("thank")
           ELSE Respond(200)
    ELSE IF d.event = "issues" /\ d.action = "opened"
      THEN IF d.missing = "issue.title" THEN Respond(500)
           ELSE IF issue_labels(v, d.title) # <<>> THEN Goto("issue_label")
           ELSE Respond(200)
    ELSE IF IsCommandEvent(d)
      THEN IF StartsWith(Strip(d.body), t_slash)
           THEN CommandEntry(Strip(d.body))
           ELSE Respond(200)
    ELSE Respond(200)

\* a delivery out of the set D reaches handler h
DeliverFrom(h, D) ==
    /\ pc[h] = "idle"
    /\ \E d \in D :
         /\ dlv' = [dlv EXCEPT ![h] = d]
         /\ pc' = [pc EXCEPT ![h] = Entry(variant, d).pc]
         /\ resp' = [resp EXCEPT ![h] = Entry(variant, d).resp]
    /\ UNCHANGED <<calls, fails, files, nprs, reviewers, idx, review, prs>>
    /\ UNCHANGED <<envVars, cxVars>>

Deliver(h) == DeliverFrom(h, Deliveries)

(***************************************************************************)
(* pull_request / opened                                                   *)
(***************************************************************************)
\* files = github_api('GET', .../pulls/{n}/files); an error response is a
\* dictionary, and the first f.get / file.get on its keys raises
\* as GetFilesFrom, but `files` being a module-level variable that the latest
\* fetch overwrites for every handler
GetFilesFromShared(h, lists) ==
    /\ pc[h] = "get_files"
    /\ \E o \in Outcomes(h) :
         /\ Log(h, Call("GET", "files", <<>>), o)
         /\ IF o = "ok"
            THEN /\ \E fs \in lists : files' = [g \in HandlerIds |-> fs]
                 /\ Flow(h, OpenedSteps(variant)[1])
            ELSE /\ Raise(h)
                 /\ UNCHANGED files
    /\ UNCHANGED <<dlv, nprs, reviewers, idx, review, prs>>
    /\ UNCHANGED <<envVars, cxVars>>

\* the platform answers with one of the file lists in `lists`
GetFilesFrom(h, lists) ==
    /\ pc[h] = "get_files"
    /\ \E o \in Outcomes(h) :
         /\ Log(h, Call("GET", "files", <<>>), o)
         /\ IF o = "ok"
            THEN /\ \E fs \in lists : files' = [files EXCEPT ![h] = fs]
                 /\ Flow(h, OpenedSteps(variant)[1])
            ELSE /\ Raise(h)
                 /\ UNCHANGED files
    /\ UNCHANGED <<dlv, nprs, reviewers, idx, review, prs>>
    /\ UNCHANGED <<envVars, cxVars>>

GetFiles(h) == GetFilesFrom(h, SampleFileLists)

\* auto_label_pr: the size label makes the label set non-empty
AutoLabel(h) ==
    /\ pc[h] = "label"
    /\ ApiCall(h, Call("POST", "labels", auto_label_pr(variant, files[h])), After(variant, "label"))
    /\ UNCHANGED <<dlv, files, nprs, reviewers, idx, review, prs>>
    /\ UNCHANGED <<envVars, cxVars>>

\* auto_assign_reviewers, the loop head and blame = github_api('GET', .../contents/...)
ReviewersBlame(h) ==
    /\ pc[h] = "reviewers"
    /\ IF idx[h] > Len(files[h])
       THEN /\ Skip(h, IF reviewers[h] # {} THEN "reviewers_post" ELSE After(variant, "reviewers"))
            /\ UNCHANGED idx
       ELSE \E o \in Outcomes(h) :
              /\ Log(h, Call("GET", "contents", idx[h]), o)
              /\ IF o = "transport"
                 THEN Raise(h) /\ UNCHANGED idx
                 ELSE IF o = "auth" \/ FileHistory(repoHistory, idx[h]).exists
                 THEN Flow(h, "reviewers_commits") /\ UNCHANGED idx
                 ELSE Flow(h, "reviewers") /\ idx' = [idx EXCEPT ![h] = @ + 1]
    /\ UNCHANGED <<dlv, files, nprs, reviewers, review, prs>>
    /\ UNCHANGED <<envVars, cxVars>>

\* the authors auto_assign_reviewers takes from one file's commits
CommitReviewers(commits, author) ==
    {commits[i] : i \in {j \in 1..Len(Take(commits, 3)) :
                            commits[j] # NoAuthor /\ commits[j] # author}}

\* commits = github_api('GET', .../commits?path=...&per_page=5); slicing an
\* error response (a dictionary) raises
ReviewersCommits(h) ==
    /\ pc[h] = "reviewers_commits"
    /\ \E o \in Outcomes(h) :
         /\ Log(h, Call("GET", "commits", idx[h]), o)
         /\ IF o = "ok"
            THEN /\ reviewers' = [reviewers EXCEPT ![h] =
                        @ \cup CommitReviewers(FileHistory(repoHistory, idx[h]).commits, Author)]
                 /\ idx' = [idx EXCEPT ![h] = @ + 1]
                 /\ Flow(h, "reviewers")
            ELSE /\ Raise(h)
                 /\ UNCHANGED <<reviewers, idx>>
    /\ UNCHANGED <<dlv, files, nprs, review, prs>>
    /\ UNCHANGED <<envVars, cxVars>>

\* as ReviewerChoices, but the whole set requested
ReviewerChoicesUncut(candidates) == {candidates}

\* list(reviewers)[:3]: any three of the set, the order of a set being arbitrary
ReviewerChoices(candidates) ==
    {S \in SUBSET candidates :
        Cardinality(S) = (IF Cardinality(candidates) < 3 THEN Cardinality(candidates) ELSE 3)}

ReviewersPost(h) ==
    /\ pc[h] = "reviewers_post"
    /\ \E S \in ReviewerChoices(reviewers[h]) :
         ApiCall(h, Call("POST", "requested_reviewers", S), After(variant, "reviewers"))
    /\ UNCHANGED <<dlv, files, nprs, reviewers, idx, review, prs>>
    /\ UNCHANGED <<envVars, cxVars>>

\* security_scan_and_comment (app); security_scan_pr and the comment (bot)
SecurityComment(h) ==
    /\ pc[h] = "security"
    /\ IF SecurityFindings(variant, files[h]) # <<>>
       THEN ApiCall(h, Call("POST", "comment_security", SecurityFindings(variant, files[h])),
                    After(variant, "security"))
       ELSE Skip(h, After(variant, "security"))
    /\ UNCHANGED <<dlv, files, nprs, reviewers, idx, review, prs>>
    /\ UNCHANGED <<envVars, cxVars>>

\* as IsFirstContribution, but welcoming whenever the author has any pull request
IsFirstContributionAtLeastOne(n) == n >= 1

\* whether the author is welcomed, given len(prs)
IsFirstContribution(n) == n = 1

\* prs = github_api('GET', .../pulls?author=...&state=all); an error response
\* is a dictionary of two entries, whose len is taken all the same
\* the platform answers with a list whose length is one of `counts`
WelcomeQueryFrom(h, counts) ==
    /\ pc[h] = "welcome"
    /\ \E o \in Outcomes(h) :
         /\ Log(h, Call("GET", "pulls_by_author", Author), o)
         /\ IF o = "transport"
            THEN Raise(h) /\ UNCHANGED nprs
            ELSE \E n \in (IF o = "auth" THEN {2} ELSE counts) :
                   /\ nprs' = [nprs EXCEPT ![h] = n]
                   /\ Flow(h, IF IsFirstContribution(n)
                              THEN (IF variant = "bot" THEN "welcome_repo" ELSE "welcome_post")
                              ELSE After(variant, "welcome"))
    /\ UNCHANGED <<dlv, files, reviewers, idx, review, prs>>
    /\ UNCHANGED <<envVars, cxVars>>

WelcomeQuery(h) == WelcomeQueryFrom(h, 0..MaxPrs)

\* bot.py only: repo_info = github_api('GET', /repos/{repo})
WelcomeRepo(h) ==
    /\ pc[h] = "welcome_repo"
    /\ ApiCall(h, Call("GET", "repo", <<>>), "welcome_post")
    /\ UNCHANGED <<dlv, files, nprs, reviewers, idx, review, prs>>
    /\ UNCHANGED <<envVars, cxVars>>

WelcomePost(h) ==
    /\ pc[h] = "welcome_post"
    /\ ApiCall(h, Call("POST", "comment_welcome", Author), After(variant, "welcome"))
    /\ UNCHANGED <<dlv, files, nprs, reviewers, idx, review, prs>>
    /\ UNCHANGED <<envVars, cxVars>>

\* bot.py only: check_pr_requirements
CheckRequirements(h) ==
    /\ pc[h] = "requirements"
    /\ IF check_pr_requirements(files[h]) # <<>>
       THEN ApiCall(h, Call("POST", "comment_requirements", check_pr_requirements(files[h])),
                    After(variant, "requirements"))
       ELSE Skip(h, After(variant, "requirements"))
    /\ UNCHANGED <<dlv, files, nprs, reviewers, idx, review, prs>>
    /\ UNCHANGED <<envVars, cxVars>>

\* whether the suggester is asked at all
ReviewWanted(key, fs) == key /\ Len(fs) <= 5

\* whether a review comment follows the suggester's answer: github_app.py posts
\* whatever came back, bot.py tests `if ai_review`
ReviewPosted(v, answer) == IF v = "app" THEN answer # "none" ELSE answer = "text"

\* ai_code_review: the request to the suggester sits in a try whose except
\* swallows every failure (a transport error, an answer without 'choices')
AiReview(h) ==
    /\ pc[h] = "ai"
    /\ IF ~ReviewWanted(openaiKey, files[h])
       THEN Skip(h, After(variant, "ai")) /\ UNCHANGED review
       ELSE \E o \in Outcomes(h) :
              /\ Log(h, Call("POST", "suggest", Len(Take(files[h], 3))), o)
              /\ \E answer \in (IF o = "ok" THEN {"text", "empty"} ELSE {"none"}) :
                   /\ review' = [review EXCEPT ![h] = answer]
                   /\ Flow(h, IF ReviewPosted(variant, answer) THEN "ai_post"
                              ELSE After(variant, "ai"))
    /\ UNCHANGED <<dlv, files, nprs, reviewers, idx, prs>>
    /\ UNCHANGED <<envVars, cxVars>>

\* the review comment: inside the try in github_app.py, outside it in bot.py
AiReviewPost(h) ==
    /\ pc[h] = "ai_post"
    /\ \E o \in Outcomes(h) :
         /\ Log(h, Call("POST", "comment_review", review[h]), o)
         /\ IF o = "transport" /\ variant = "bot" THEN Raise(h) ELSE Flow(h, After(variant, "ai"))
    /\ UNCHANGED <<dlv, files, nprs, reviewers, idx, review, prs>>
    /\ UNCHANGED <<envVars, cxVars>>

\* github_app.py only: generate_pr_summary(files, pr['title']) and its comment;
\* pr['title'] raises KeyError when the payload has no title
Summary(h) ==
    /\ pc[h] = "summary"
    /\ IF dlv[h].missing = "pull_request.title"
       THEN Raise(h) /\ UNCHANGED <<calls, fails>>
       ELSE ApiCall(h, Call("POST", "comment_summary", generate_pr_summary(files[h])), "done")
    /\ UNCHANGED <<dlv, files, nprs, reviewers, idx, review, prs>>
    /\ UNCHANGED <<envVars, cxVars>>

(***************************************************************************)
(* pull_request / closed and issues / opened                               *)
(***************************************************************************)
Thank(h) ==
    /\ pc[h] = "thank"
    /\ ApiCall(h, Call("POST", "comment_thanks", Author), "done")
    /\ UNCHANGED <<dlv, files, nprs, reviewers, idx, review, prs>>
    /\ UNCHANGED <<envVars, cxVars>>

IssueLabel(h) ==
    /\ pc[h] = "issue_label"
    /\ ApiCall(h, Call("POST", "labels", issue_labels(variant, dlv[h].title)), "done")
    /\ UNCHANGED <<dlv, files, nprs, reviewers, idx, review, prs>>
    /\ UNCHANGED <<envVars, cxVars>>

(***************************************************************************)
(* issue_comment / created: the commands                                   *)
(***************************************************************************)
AppJokes == 6
AppQuotes == 6
BotJokes == 4
BotQuotes == 4
AppChangelogLen == 5
BotChangelogLen == 10

\* bot.py confirms /assign, /label and /close with a comment; github_app.py does not
AfterCommand(v, reply) == IF v = "bot" THEN reply ELSE "done"

\* the text of the reply to /label: a fixed prefix, then the label
LabelReply(label) == <<"A", "d", "d", "e", "d", " ", "l", "a", "b", "e", "l", ":", " ">> \o label

CmdHelp(h) ==
    /\ pc[h] = "cmd_help"
    /\ ApiCall(h, Call("POST", "comment_help", <<>>), "done")
    /\ UNCHANGED <<dlv, files, nprs, reviewers, idx, review, prs>>
    /\ UNCHANGED <<envVars, cxVars>>

CmdAssign(h) ==
    /\ pc[h] = "cmd_assign"
    /\ ApiCall(h, Call("POST", "assignees", <<Assignee(Strip(dlv[h].body))>>),
               AfterCommand(variant, "cmd_assign_reply"))
    /\ UNCHANGED <<dlv, files, nprs, reviewers, idx, review, prs>>
    /\ UNCHANGED <<envVars, cxVars>>

CmdAssignReply(h) ==
    /\ pc[h] = "cmd_assign_reply"
    /\ ApiCall(h, Call("POST", "comment_assigned", Assignee(Strip(dlv[h].body))), "done")
    /\ UNCHANGED <<dlv, files, nprs, reviewers, idx, review, prs>>
    /\ UNCHANGED <<envVars, cxVars>>

CmdLabel(h) ==
    /\ pc[h] = "cmd_label"
    /\ ApiCall(h, Call("POST", "labels", <<LabelArg(Strip(dlv[h].body))>>),
               AfterCommand(variant, "cmd_label_reply"))
    /\ UNCHANGED <<dlv, files, nprs, reviewers, idx, review, prs>>
    /\ UNCHANGED <<envVars, cxVars>>

CmdLabelReply(h) ==
    /\ pc[h] = "cmd_label_reply"
    /\ ApiCall(h, Call("POST", "comment_labelled", LabelReply(LabelArg(Strip(dlv[h].body)))), "done")
    /\ UNCHANGED <<dlv, files, nprs, reviewers, idx, review, prs>>
    /\ UNCHANGED <<envVars, cxVars>>

CmdClose(h) ==
    /\ pc[h] = "cmd_close"
    /\ ApiCall(h, Call("PATCH", "state", "closed"), AfterCommand(variant, "cmd_close_reply"))
    /\ UNCHANGED <<dlv, files, nprs, reviewers, idx, review, prs>>
    /\ UNCHANGED <<envVars, cxVars>>

CmdCloseReply(h) ==
    /\ pc[h] = "cmd_close_reply"
    /\ ApiCall(h, Call("POST", "comment_closed", <<>>), "done")
    /\ UNCHANGED <<dlv, files, nprs, reviewers, idx, review, prs>>
    /\ UNCHANGED <<envVars, cxVars>>

\* prs = github_api('GET', .../pulls?state=closed...); slicing an error
\* response (a dictionary) raises
CmdChangelogQuery(h) ==
    /\ pc[h] = "cmd_changelog"
    /\ \E o \in Outcomes(h) :
         /\ Log(h, Call("GET", "pulls_closed", <<>>), o)
         /\ IF o = "ok"
            THEN /\ \E ps \in SampleClosedPrs : prs' = [prs EXCEPT ![h] = ps]
                 /\ Flow(h, "cmd_changelog_post")
            ELSE /\ Raise(h)
                 /\ UNCHANGED prs
    /\ UNCHANGED <<dlv, files, nprs, reviewers, idx, review>>
    /\ UNCHANGED <<envVars, cxVars>>

\* the entries of the changelog: the merged ones among the first few
Changelog(v, closed) ==
    LET shown == Take(closed, IF v = "app" THEN AppChangelogLen ELSE BotChangelogLen)
    IN  Flatten([i \in 1..Len(shown) |->
          IF shown[i].merged_at THEN <<shown[i].number>> ELSE <<>>])

CmdChangelogPost(h) ==
    /\ pc[h] = "cmd_changelog_post"
    /\ ApiCall(h, Call("POST", "comment_changelog", Changelog(variant, prs[h])), "done")
    /\ UNCHANGED <<dlv, files, nprs, reviewers, idx, review, prs>>
    /\ UNCHANGED <<envVars, cxVars>>

\* random.choice over the list of jokes
CmdJoke(h) ==
    /\ pc[h] = "cmd_joke"
    /\ \E j \in 1..(IF variant = "app" THEN AppJokes ELSE BotJokes) :
         ApiCall(h, Call("POST", "comment_joke", j), "done")
    /\ UNCHANGED <<dlv, files, nprs, reviewers, idx, review, prs>>
    /\ UNCHANGED <<envVars, cxVars>>

CmdMotivate(h) ==
    /\ pc[h] = "cmd_motivate"
    /\ \E q \in 1..(IF variant = "app" THEN AppQuotes ELSE BotQuotes) :
         ApiCall(h, Call("POST", "comment_motivate", q), "done")
    /\ UNCHANGED <<dlv, files, nprs, reviewers, idx, review, prs>>
    /\ UNCHANGED <<envVars, cxVars>>

(***************************************************************************)
(* One delivery handled from start to end                                  *)
(***************************************************************************)
Next ==
    \/ Deliver(1)
    \/ GetFiles(1)
    \/ AutoLabel(1)
    \/ ReviewersBlame(1)
    \/ ReviewersCommits(1)
    \/ ReviewersPost(1)
    \/ SecurityComment(1)
    \/ WelcomeQuery(1)
    \/ WelcomeRepo(1)
    \/ WelcomePost(1)
    \/ CheckRequirements(1)
    \/ AiReview(1)
    \/ AiReviewPost(1)
    \/ Summary(1)
    \/ Thank(1)
    \/ IssueLabel(1)
    \/ CmdHelp(1)
    \/ CmdAssign(1)
    \/ CmdAssignReply(1)
    \/ CmdLabel(1)
    \/ CmdLabelReply(1)
    \/ CmdClose(1)
    \/ CmdCloseReply(1)
    \/ CmdChangelogQuery(1)
    \/ CmdChangelogPost(1)
    \/ CmdJoke(1)
    \/ CmdMotivate(1)

Spec == Init /\ [][Next]_vars

(***************************************************************************)
(* analyze_code_complexity applied to file sets of every size              *)
(***************************************************************************)
MaxCxFiles == 11

\* the lines changed of a file; the sums reach 50, 51, 200, 201, 500 and 501
CxChanges == {0, 1, 50, 150, 300}

InitCx == Init /\ variant = "app" /\ ~openaiKey

\* one more file; the sum and the count do not depend on the order of the
\* files, so the sets are built largest file first
CxAddFile ==
    /\ cxResult = NoResult
    /\ Len(cxFiles) < MaxCxFiles
    /\ \E c \in CxChanges :
         /\ IF cxFiles = <<>> THEN TRUE ELSE c <= cxFiles[Len(cxFiles)].changes
         /\ cxFiles' = Append(cxFiles, File(<<>>, c, <<>>))
    /\ UNCHANGED <<cxResult, envVars, handlerVars>>

CxAnalyze ==
    /\ cxResult = NoResult
    /\ cxResult' = analyze_code_complexity(cxFiles)
    /\ UNCHANGED <<cxFiles, envVars, handlerVars>>

NextCx == CxAddFile \/ CxAnalyze

SpecCx == InitCx /\ [][NextCx]_vars

(***************************************************************************)
(* auto_label_pr applied to file sets around the size thresholds           *)
(***************************************************************************)
MaxLbFiles == 2

\* file names that meet the rule chains in different ways
LabelNames == {
    <<"t", "e", "s", "t", "s", "/", "t", "e", "s", "t", "_", "a", "p", "p", ".", "p", "y">>, <<"d", "o", "c", "s", "/", "t", "e", "s", "t", "_", "p", "l", "a", "n", ".", "m", "d">>, <<"s", "r", "c", "/", "f", "r", "o", "n", "t", "e", "n", "d", "/", "i", "n", "d", "e", "x", ".", "h", "t", "m", "l">>,
    <<"d", "o", "c", "k", "e", "r", "-", "c", "o", "m", "p", "o", "s", "e", ".", "y", "m", "l">>, <<"c", "m", "d", "/", "s", "e", "r", "v", "e", "r", "/", "a", "p", "i", ".", "g", "o">>, <<"a", "p", "p", "/", "u", "i", "/", "s", "e", "r", "v", "e", "r", "/", "A", "u", "t", "h", ".", "t", "s">>, <<"d", "a", "t", "a", ".", "b", "i", "n">> }

\* the lines changed of the files without a name of interest; with the
\* one-line files the sums reach 100, 101, 500 and 501
LabelChanges == {10, 100, 150, 500, 600}

LabelFiles ==
    {File(n, 1, <<>>) : n \in LabelNames} \cup {File(<<"b", "l", "o", "b">>, c, <<>>) : c \in LabelChanges}

LabelFileLists == UNION {[1..n -> LabelFiles] : n \in 0..MaxLbFiles}

OpenedDeliveries == {d \in PullRequestDeliveries : d.action = "opened" /\ d.missing = "none"}

InitLabel == Init /\ ~openaiKey /\ repoHistory = "none"

NextLabel ==
    \/ DeliverFrom(1, OpenedDeliveries)
    \/ GetFilesFrom(1, LabelFileLists)
    \/ AutoLabel(1)

SpecLabel == InitLabel /\ [][NextLabel]_vars

(***************************************************************************)
(* scan_for_vulnerabilities applied to the patches of an opened pull       *)
(* request (github_app.py)                                                 *)
(***************************************************************************)
MaxScanFiles == 2

\* patches that match no pattern, one pattern, two patterns of one category,
\* and patterns of two categories; two of the files share their name
ScanFiles == {
    File(<<"a", ".", "p", "y">>, 1, <<>>),
    File(<<"a", ".", "p", "y">>, 1, <<"+", "P", "A", "S", "S", "W", "O", "R", "D", " ", "=", " ", "\"", "x", "\"">>),
    File(<<"b", ".", "p", "y">>, 1, <<"+", "p", "a", "s", "s", "w", "o", "r", "d", " ", "=", " ", "\"", "\"", "\n", "+", "t", "o", "k", "e", "n", "s", " ", "=", " ", "3">>),
    File(<<"c", ".", "j", "s">>, 1, <<"+", "e", "v", "a", "l", "(">>),
    File(<<"c", ".", "j", "s">>, 1, <<"+", "e", "x", "e", "c", " ", "(", "y", ")", ";", " ", "E", "V", "A", "L", "(", "x", ")">>),
    File(<<"d", ".", "p", "h", "p">>, 1, <<"+", "s", "h", "e", "l", "l", "_", "e", "x", "e", "c", "(", "$", "c", "m", "d", ")">>),
    File(<<"e", ".", "p", "y">>, 1, <<"+", "t", "o", "k", "e", "n", "=", "'", "a", "'", ";", " ", "a", "p", "i", "_", "k", "e", "y", " ", "=", " ", "\"", "b", "\"">>),
    File(<<"f", ".", "p", "y">>, 1, <<"+", "c", "u", "r", ".", "e", "x", "e", "c", "u", "t", "e", "(", "\"", "s", "e", "l", "e", "c", "t", " ", "\"", " ", "+", " ", "x", ")", ";", " ", "s", "e", "c", "r", "e", "t", " ", "=", " ", "\"", "s", "\"">>),
    File(<<"g", ".", "p", "y">>, 1, <<"+", "d", "b", ".", "q", "u", "e", "r", "y", "(", "\"", "s", "e", "l", "e", "c", "t", " ", "\"", "\n", " ", "+", " ", "x", ")">>) }

ScanFileLists == UNION {[1..n -> ScanFiles] : n \in 0..MaxScanFiles}

InitScan == Init /\ variant = "app" /\ ~openaiKey

NextScan ==
    \/ DeliverFrom(1, OpenedDeliveries)
    \/ GetFilesFrom(1, ScanFileLists)
    \/ AutoLabel(1)
    \/ SecurityComment(1)

SpecScan == InitScan /\ [][NextScan]_vars

(***************************************************************************)
(* Two deliveries, for different pull requests or issues, handled at the   *)
(* same time by two threads of the server                                  *)
(***************************************************************************)
PairBodies == { <<"/", "h", "e", "l", "p">>, <<"/", "a", "s", "s", "i", "g", "n", " ", "@", "b", "o", "b">>, <<"/", "l", "a", "b", "e", "l", " ", "b", "u", "g">>, <<"/", "c", "l", "o", "s", "e">>, <<"/", "c", "h", "a", "n", "g", "e", "l", "o", "g">>, <<"/", "j", "o", "k", "e">> }

PairTitles == { <<"B", "u", "g", ":", " ", "l", "o", "g", "i", "n", " ", "b", "r", "o", "k", "e", "n">> }

PairDeliveries ==
    {d \in Deliveries :
        /\ d.missing = "none"
        /\ \/ d.event = "pull_request" /\ d.action = "opened"
           \/ d.event = "pull_request" /\ d.action = "closed" /\ d.merged = "true"
           \/ d.event = "issues" /\ d.action = "opened" /\ d.title \in PairTitles
           \/ d.event = "issue_comment" /\ d.action = "created" /\ d.body \in PairBodies}

\* the two small pull requests of the samples
PairFileLists == {fs \in SampleFileLists : Len(fs) \in {1, 2} /\ SumChanges(fs) <= 500}

\* every call is answered: the handlers have no failure left to meet
InitPair == InitSpent(MaxFailures) /\ openaiKey /\ repoHistory \in {"none", "crowd"}

NextPair ==
    \E h \in HandlerIds :
        \/ DeliverFrom(h, PairDeliveries)
        \/ GetFilesFrom(h, PairFileLists)
        \/ AutoLabel(h)
        \/ ReviewersBlame(h)
        \/ ReviewersCommits(h)
        \/ ReviewersPost(h)
        \/ SecurityComment(h)
        \/ WelcomeQuery(h)
        \/ WelcomeRepo(h)
        \/ WelcomePost(h)
        \/ CheckRequirements(h)
        \/ AiReview(h)
        \/ AiReviewPost(h)
        \/ Summary(h)
        \/ Thank(h)
        \/ IssueLabel(h)
        \/ CmdHelp(h)
        \/ CmdAssign(h)
        \/ CmdAssignReply(h)
        \/ CmdLabel(h)
        \/ CmdLabelReply(h)
        \/ CmdClose(h)
        \/ CmdCloseReply(h)
        \/ CmdChangelogQuery(h)
        \/ CmdChangelogPost(h)
        \/ CmdJoke(h)

SpecPair == InitPair /\ [][NextPair]_vars

(***************************************************************************)
(* One author opens pull requests in one repository: the platform counts   *)
(* them, delivers each once, and two threads of the server handle the      *)
(* deliveries                                                              *)
(***************************************************************************)
\* the author opens one more pull request; its delivery is on the way
CreatePr ==
    /\ created < MaxPrs
    /\ created' = created + 1
    /\ pending' = pending \cup {created + 1}
    /\ UNCHANGED <<variant, openaiKey, repoHistory, handlerVars, cxVars>>

\* as DeliverPending, but the platform delivering a pull request again
DeliverPendingAgain(h) ==
    /\ pc[h] = "idle"
    /\ \E k \in pending : \E d \in OpenedDeliveries :
         /\ pending' = pending
         /\ dlv' = [dlv EXCEPT ![h] = d]
         /\ pc' = [pc EXCEPT ![h] = Entry(variant, d).pc]
         /\ resp' = [resp EXCEPT ![h] = Entry(variant, d).resp]
    /\ UNCHANGED <<calls, fails, files, nprs, reviewers, idx, review, prs>>
    /\ UNCHANGED <<variant, openaiKey, repoHistory, created, cxVars>>

\* the delivery of an opened pull request reaches handler h, once
DeliverPending(h) ==
    /\ pc[h] = "idle"
    /\ \E k \in pending : \E d \in OpenedDeliveries :
         /\ pending' = pending \ {k}
         /\ dlv' = [dlv EXCEPT ![h] = d]
         /\ pc' = [pc EXCEPT ![h] = Entry(variant, d).pc]
         /\ resp' = [resp EXCEPT ![h] = Entry(variant, d).resp]
    /\ UNCHANGED <<calls, fails, files, nprs, reviewers, idx, review, prs>>
    /\ UNCHANGED <<variant, openaiKey, repoHistory, created, cxVars>>

\* pull requests of one small file
WelcomeFileLists == {fs \in SampleFileLists : Len(fs) = 1 /\ SumChanges(fs) <= 100}

InitWelcome == Init /\ ~openaiKey /\ repoHistory \in {"none", "self"}

NextWelcome ==
    \/ CreatePr
    \/ \E h \in HandlerIds :
         \/ DeliverPending(h)
         \/ GetFilesFrom(h, WelcomeFileLists)
         \/ AutoLabel(h)
         \/ ReviewersBlame(h)
         \/ ReviewersCommits(h)
         \/ SecurityComment(h)
         \/ WelcomeQueryFrom(h, {created})
         \/ WelcomeRepo(h)
         \/ WelcomePost(h)

SpecWelcome == InitWelcome /\ [][NextWelcome]_vars

(***************************************************************************)
(* Properties                                                              *)
(***************************************************************************)
Done(h) == pc[h] = "done"

Opened(h) == dlv[h].event = "pull_request" /\ dlv[h].action = "opened"

\* the payload carries every field the running program reads
Complete(h) ==
    \/ dlv[h].missing = "none"
    \/ variant = "bot" /\ dlv[h].missing = "installation"

AllOk(h) == \A i \in 1..Len(calls[h]) : calls[h][i].out = "ok"

HasCall(h, kind) == \E i \in 1..Len(calls[h]) : calls[h][i].kind = kind

CountCalls(h, kind) == Cardinality({i \in 1..Len(calls[h]) : calls[h][i].kind = kind})

\* the kinds of the calls that change the platform, in the order issued
Mutations(h) ==
    Flatten([i \in 1..Len(calls[h]) |->
        IF calls[h][i].op # "GET" /\ calls[h][i].kind # "suggest"
        THEN <<calls[h][i].kind>> ELSE <<>>])

IsComment(kind) ==
    kind \in {"comment_security", "comment_welcome", "comment_requirements",
              "comment_review", "comment_summary"}

Increasing(ranks) == \A i, j \in 1..Len(ranks) : i < j => ranks[i] < ranks[j]

\* C1: in the opened sequence a failing external call does not stop the later
\* actions: once the file list is there, the handler ends without an error
\* and, in github_app.py, the closing summary comment has been attempted
C1_FailureIsolated ==
    (Done(1) /\ Opened(1) /\ Complete(1) /\ HasCall(1, "labels"))
        => (resp[1] = 200 /\ (variant = "app" => HasCall(1, "comment_summary")))

\* the order of the table of the specification
SpecRank(kind) ==
    CASE kind = "labels" -> 1
      [] kind = "comment_security" -> 2
      [] kind = "comment_welcome" -> 3
      [] kind = "comment_requirements" -> 4
      [] kind = "comment_review" -> 5
      [] kind = "comment_summary" -> 6
      [] OTHER -> 0

ListedMutations(h) ==
    Flatten([i \in 1..Len(Mutations(h)) |->
        IF SpecRank(Mutations(h)[i]) > 0 THEN <<Mutations(h)[i]>> ELSE <<>>])

\* C2 as stated: with every call succeeding, an opened pull request gets
\* add-labels, then the security comment, the welcome, the requirements
\* comment, the review suggestion and last the summary comment, in this order
C2_SpecOrder ==
    (Done(1) /\ Opened(1) /\ Complete(1) /\ AllOk(1) /\ resp[1] = 200)
        => /\ Increasing([i \in 1..Len(ListedMutations(1)) |-> SpecRank(ListedMutations(1)[i])])
           /\ ListedMutations(1) # <<>>
           /\ ListedMutations(1)[1] = "labels"
           /\ ListedMutations(1)[Len(ListedMutations(1))] = "comment_summary"

AppRank(kind) ==
    CASE kind = "labels" -> 1
      [] kind = "comment_security" -> 2
      [] kind = "comment_welcome" -> 3
      [] kind = "comment_review" -> 4
      [] kind = "comment_summary" -> 5
      [] OTHER -> 0

BotRank(kind) ==
    CASE kind = "labels" -> 1
      [] kind = "requested_reviewers" -> 2
      [] kind = "comment_welcome" -> 3
      [] kind = "comment_requirements" -> 4
      [] kind = "comment_security" -> 5
      [] kind = "comment_review" -> 6
      [] OTHER -> 0

ProgramRank(kind) == IF variant = "app" THEN AppRank(kind) ELSE BotRank(kind)

\* C2 amended: no comment precedes the add-labels call; with every call
\* succeeding github_app.py issues add-labels, security comment, welcome,
\* review suggestion, summary, while bot.py issues add-labels, reviewer request,
\* welcome, requirements comment, security comment, review suggestion and
\* posts no summary
C2_ProgramOrder ==
    Opened(1) =>
      /\ \A i \in 1..Len(Mutations(1)) :
           IsComment(Mutations(1)[i]) => \E j \in 1..(i - 1) : Mutations(1)[j] = "labels"
      /\ (Done(1) /\ AllOk(1) /\ resp[1] = 200) =>
           /\ \A i \in 1..Len(Mutations(1)) : ProgramRank(Mutations(1)[i]) > 0
           /\ Increasing([i \in 1..Len(Mutations(1)) |-> ProgramRank(Mutations(1)[i])])
           /\ Mutations(1)[1] = "labels"
           /\ (variant = "app") <=> (Mutations(1)[Len(Mutations(1))] = "comment_summary")
           /\ (variant = "app") <=> HasCall(1, "comment_summary")

\* bot.py has posted the welcome and then the security comment
C2_Witness ==
    /\ Done(1) /\ Opened(1) /\ AllOk(1) /\ resp[1] = 200 /\ variant = "bot"
    /\ \E i, j \in 1..Len(Mutations(1)) :
         i < j /\ Mutations(1)[i] = "comment_welcome" /\ Mutations(1)[j] = "comment_security"

\* the seven verbs of the command table
KnownVerbs == {t_help, t_assign, t_label, t_close, t_changelog, t_joke, t_motivate}

SlashCommand(h) ==
    /\ dlv[h].event = "issue_comment" /\ dlv[h].action = "created"
    /\ StartsWith(Strip(dlv[h].body), t_slash)

Verb(h) == SplitWs(Lower(Strip(dlv[h].body)))[1]

\* C3: a slash command whose verb is none of the seven makes no platform call
\* and raises no error
C3_UnknownVerbIgnored ==
    (Done(1) /\ Complete(1) /\ SlashCommand(1) /\ Verb(1) \notin KnownVerbs)
        => (calls[1] = <<>> /\ resp[1] = 200)

\* nothing that could be a login follows an '@' of the comment
NoLogin(comment) ==
    \A i \in 1..Len(comment) :
        comment[i] = "@" => (i = Len(comment) \/ comment[i + 1] \in WS \cup {"@"})

\* C4: /assign without a login after an '@' and /label without an argument
\* after the '/label ' token make no platform call and end with success
C4_MalformedIgnored ==
    (/\ Done(1) /\ Complete(1) /\ SlashCommand(1)
     /\ \/ Verb(1) = t_assign /\ NoLogin(Strip(dlv[1].body))
        \/ Verb(1) = t_label /\ ~Contains(Strip(dlv[1].body), t_label_sp))
        => (calls[1] = <<>> /\ resp[1] = 200)

\* the name of a comment '/label <name>': everything after the token, trimmed
NameAfterLabel(comment) == Strip(SubSeq(comment, Len(t_label_sp) + 1, Len(comment)))

\* C5: '/label <name>' issues one add-labels call for [name], name being all
\* that follows the '/label ' token, and then one reply that contains the name;
\* stated for bot.py, the program that replies to /label
C5_LabelCommand ==
    (/\ Done(1) /\ Complete(1) /\ SlashCommand(1) /\ AllOk(1) /\ variant = "bot"
     /\ StartsWith(Strip(dlv[1].body), t_label_sp))
        => /\ Len(calls[1]) = 2
           /\ calls[1][1].kind = "labels"
           /\ calls[1][1].arg = <<NameAfterLabel(Strip(dlv[1].body))>>
           /\ calls[1][2].kind = "comment_labelled"
           /\ Contains(calls[1][2].arg, NameAfterLabel(Strip(dlv[1].body)))

\* C6: a delivery that lacks a required field (the title of an opened pull
\* request or issue) makes no platform call and is answered with a client error
C6_MalformedRejected ==
    (/\ dlv[1].action = "opened"
     /\ \/ dlv[1].event = "pull_request" /\ dlv[1].missing = "pull_request.title"
        \/ dlv[1].event = "issues" /\ dlv[1].missing = "issue.title")
        => /\ calls[1] = <<>>
           /\ Done(1) => (resp[1] >= 400 /\ resp[1] < 500)

InTable(d) ==
    \/ d.event = "pull_request" /\ d.action \in {"opened", "closed"}
    \/ d.event = "issues" /\ d.action = "opened"
    \/ d.event = "issue_comment" /\ d.action = "created"

\* C7: an event outside the routing table, and a created comment that does not
\* start with '/', make no platform call and are answered with success
C7_OthersIgnored ==
    (/\ pc[1] # "idle" /\ Complete(1)
     /\ \/ ~InTable(dlv[1])
        \/ /\ dlv[1].event = "issue_comment" /\ dlv[1].action = "created"
           /\ ~StartsWith(Strip(dlv[1].body), t_slash))
        => (Done(1) /\ calls[1] = <<>> /\ resp[1] = 200)

\* a deleted comment '/help' was delivered and ignored
C7_Witness ==
    /\ Done(1) /\ resp[1] = 200 /\ calls[1] = <<>>
    /\ dlv[1].event = "issue_comment" /\ dlv[1].action = "deleted"
    /\ StartsWith(dlv[1].body, t_help)

\* C8: a closed pull request gets exactly one thank-you comment when merged is
\* true and no platform call at all when merged is false or absent
C8_ThanksOnMerge ==
    (Done(1) /\ Complete(1) /\ dlv[1].event = "pull_request" /\ dlv[1].action = "closed")
        => IF dlv[1].merged = "true"
           THEN /\ Len(calls[1]) = 1
                /\ calls[1][1].op = "POST"
                /\ calls[1][1].kind = "comment_thanks"
                /\ AllOk(1) => resp[1] = 200
           ELSE calls[1] = <<>> /\ resp[1] = 200

\* a merged pull request was closed and thanked for
C8_Witness ==
    /\ Done(1) /\ dlv[1].event = "pull_request" /\ dlv[1].action = "closed"
    /\ dlv[1].merged = "true" /\ HasCall(1, "comment_thanks") /\ resp[1] = 200

\* C9: an opened pull request gets a welcome comment exactly when the platform
\* reports one pull request for the author: never more than one welcome, none
\* unless the count is 1, and one whenever the count is 1 and the handler ends
\* without an error
C9_WelcomeIffFirst ==
    Opened(1) =>
      /\ CountCalls(1, "comment_welcome") <= 1
      /\ HasCall(1, "comment_welcome") => nprs[1] = 1
      /\ (Done(1) /\ resp[1] = 200) => (HasCall(1, "comment_welcome") <=> nprs[1] = 1)

\* the platform reported one pull request and the welcome was posted
C9_Witness ==
    /\ Done(1) /\ Opened(1) /\ resp[1] = 200 /\ nprs[1] = 1
    /\ CountCalls(1, "comment_welcome") = 1

\* the sum of the lines changed, counted from the last file to the first
RECURSIVE LinesUpTo(_, _)
LinesUpTo(fs, n) == IF n = 0 THEN 0 ELSE fs[n].changes + LinesUpTo(fs, n - 1)

\* C10: the score is the lines tier (3 above 500, 2 above 200, 1 above 50) plus
\* the files tier (2 above 10, 1 above 5), so it lies in 0..5; the risk is high
\* from 4, medium at 2 and 3, low below; 501 lines are high with 6 files and
\* not with 5 or fewer, and no file at all gives score 0 and low
C10_ComplexityScore ==
    cxResult # NoResult =>
      LET t == LinesUpTo(cxFiles, Len(cxFiles))
          n == Len(cxFiles)
          lines == CASE t > 500 -> 3 [] t > 200 /\ t <= 500 -> 2 [] t > 50 /\ t <= 200 -> 1
                     [] OTHER -> 0
          count == CASE n > 10 -> 2 [] n > 5 /\ n <= 10 -> 1 [] OTHER -> 0
      IN  /\ cxResult.total_lines = t
          /\ cxResult.file_count = n
          /\ cxResult.score = lines + count
          /\ cxResult.score \in 0..5
          /\ (cxResult.risk_level = "high") <=> (cxResult.score >= 4)
          /\ (cxResult.risk_level = "medium") <=> (cxResult.score \in {2, 3})
          /\ (cxResult.risk_level = "low") <=> (cxResult.score < 2)
          /\ (t = 501 /\ n <= 5) => cxResult.risk_level # "high"
          /\ (t = 501 /\ n = 6) => cxResult.risk_level = "high"
          /\ (n = 0) => (cxResult.score = 0 /\ cxResult.risk_level = "low")

\* 501 lines in 6 files were scored high
C10_Witness ==
    /\ cxResult # NoResult
    /\ cxResult.total_lines = 501 /\ cxResult.file_count = 6 /\ cxResult.risk_level = "high"

\* the labels that name a size tier, and the tier each names
SizeLabels == {"small", "medium", "large", "size/small", "size/medium", "size/large"}

TierOf(label) ==
    CASE label \in {"small", "size/small"} -> "small"
      [] label \in {"medium", "size/medium"} -> "medium"
      [] label \in {"large", "size/large"} -> "large"

\* the add-labels calls an opened pull request has received
LabelCalls(h) == {i \in 1..Len(calls[h]) : Opened(h) /\ calls[h][i].kind = "labels"}

\* C11: for every file list the handler fetched, the empty one included, the
\* label set submitted holds exactly one size label, whose tier is large when
\* the lines changed sum to more than 500, medium when to more than 100 and at
\* most 500, small otherwise (600 large, 150 medium, 10 small); and the
\* add-labels call is issued for every file list
C11_OneSizeTier ==
    /\ \A i \in LabelCalls(1) :
         LET t == LinesUpTo(files[1], Len(files[1]))
             sizes == calls[1][i].arg \cap SizeLabels
         IN  /\ Cardinality(sizes) = 1
             /\ \A l \in sizes :
                  /\ (TierOf(l) = "large") <=> (t > 500)
                  /\ (TierOf(l) = "medium") <=> (t > 100 /\ t <= 500)
                  /\ (TierOf(l) = "small") <=> (t <= 100)
                  /\ (t = 600) => TierOf(l) = "large"
                  /\ (t = 150) => TierOf(l) = "medium"
                  /\ (t = 10) => TierOf(l) = "small"
    /\ (Opened(1) /\ pc[1] \notin {"idle", "get_files", "label"} /\ calls[1][1].out = "ok")
         => LabelCalls(1) # {}

\* a pull request of exactly 500 lines was labelled medium by bot.py
C11_Witness ==
    /\ variant = "bot" /\ LinesUpTo(files[1], Len(files[1])) = 500
    /\ \E i \in LabelCalls(1) : "medium" \in calls[1][i].arg

\* the (file, category, pattern) triples of a file list whose pattern matches
\* the lower-cased patch of the file
MatchingTriples(fs) ==
    {t \in (1..Len(fs)) \X (1..Len(SECURITY_PATTERNS)) \X (1..4) :
        /\ t[3] <= Len(SECURITY_PATTERNS[t[2]].patterns)
        /\ fs[t[1]].patch # <<>>
        /\ re_search(SECURITY_PATTERNS[t[2]].patterns[t[3]], Lower(fs[t[1]].patch))}

\* file order, then category order, then pattern order
TripleBefore(a, b) ==
    \/ a[1] < b[1]
    \/ a[1] = b[1] /\ a[2] < b[2]
    \/ a[1] = b[1] /\ a[2] = b[2] /\ a[3] < b[3]

\* the findings github_app.py reported, <<>> when it posted no security comment
ReportedFindings(h) ==
    IF HasCall(h, "comment_security")
    THEN calls[h][CHOOSE i \in 1..Len(calls[h]) : calls[h][i].kind = "comment_security"].arg
    ELSE <<>>

\* the security step of the handler is over
Scanned(h) == Opened(h) /\ (pc[h] = After("app", "security") \/ HasCall(h, "comment_security"))

\* C12: the findings are one per matching (file, category, pattern) triple,
\* in file, category, pattern order and without deduplication; a file without
\* patch text contributes none; a finding is high exactly when its category is
\* hardcoded_secrets and medium otherwise
C12_OneFindingPerTriple ==
    Scanned(1) =>
      LET T == MatchingTriples(files[1])
          found == ReportedFindings(1)
      IN  /\ Len(found) = Cardinality(T)
          /\ \A t \in T :
               LET k == Cardinality({u \in T : TripleBefore(u, t)}) + 1
               IN  /\ found[k].file = files[1][t[1]].filename
                   /\ found[k].type = SECURITY_PATTERNS[t[2]].category
          /\ \A k \in 1..Len(found) :
               /\ found[k].severity \in {"high", "medium"}
               /\ (found[k].severity = "high") <=> (found[k].type = "hardcoded_secrets")
          /\ (\A i \in 1..Len(files[1]) : files[1][i].patch = <<>>) => found = <<>>
          /\ CountCalls(1, "comment_security") <= 1

\* one file matched two patterns of one category and was reported twice
C12_Witness ==
    /\ Scanned(1) /\ Len(files[1]) = 1 /\ Len(ReportedFindings(1)) = 2
    /\ ReportedFindings(1)[1].type = "dangerous_functions"
    /\ ReportedFindings(1)[2] = ReportedFindings(1)[1]

IssueOpened(h) == dlv[h].event = "issues" /\ dlv[h].action = "opened"

\* the labels of the rules one of whose keywords occurs in the lower-cased title
MatchedIssueLabels(v, title) ==
    {IssueRules(v)[r].label : r \in {q \in 1..Len(IssueRules(v)) :
        \E w \in 1..Len(IssueRules(v)[q].words) :
            Contains(Lower(title), IssueRules(v)[q].words[w])}}

\* C13: on issues/opened every keyword rule adds its label exactly when one of
\* its keywords occurs in the lower-cased title, each label once; the labels
\* go out in a single add-labels call, and no call is made when no rule matches
C13_IssueLabels ==
    (IssueOpened(1) /\ Complete(1)) =>
      LET expected == MatchedIssueLabels(variant, dlv[1].title)
      IN  /\ Len(calls[1]) <= 1
          /\ expected = {} => (Done(1) /\ calls[1] = <<>> /\ resp[1] = 200)
          /\ \A i \in 1..Len(calls[1]) :
               /\ calls[1][i].op = "POST"
               /\ calls[1][i].kind = "labels"
               /\ SeqToSet(calls[1][i].arg) = expected
               /\ Len(calls[1][i].arg) = Cardinality(expected)
          /\ (Done(1) /\ expected # {}) => Len(calls[1]) = 1
          /\ (Done(1) /\ AllOk(1)) => resp[1] = 200

\* an issue whose title met several rules was given their labels in one call
C13_Witness ==
    /\ IssueOpened(1) /\ Done(1) /\ resp[1] = 200 /\ Len(calls[1]) = 1
    /\ {"bug", "question", "priority: high"} \subseteq SeqToSet(calls[1][1].arg)

(***************************************************************************)
(* webhook() read as one sequential function: the calls a handler issues   *)
(* when it handles its delivery alone and every call is answered           *)
(***************************************************************************)
\* a call expected at some position: the argument is one of `args`
Expect(op, kind, args) == [op |-> op, kind |-> kind, args |-> args]

\* auto_assign_reviewers: the blame and commit queries file by file, then the request
AloneReviewers(fs, history) ==
    LET known == {i \in 1..Len(fs) : FileHistory(history, i).exists}
        candidates == UNION {CommitReviewers(FileHistory(history, i).commits, Author) : i \in known}
    IN  Flatten([i \in 1..Len(fs) |->
            <<Expect("GET", "contents", {i})>>
              \o (IF i \in known THEN <<Expect("GET", "commits", {i})>> ELSE <<>>)])
          \o (IF candidates # {}
              THEN <<Expect("POST", "requested_reviewers", ReviewerChoices(candidates))>>
              ELSE <<>>)

AloneSecurity(v, fs) ==
    IF SecurityFindings(v, fs) # <<>>
    THEN <<Expect("POST", "comment_security", {SecurityFindings(v, fs)})>> ELSE <<>>

AloneWelcome(v, n) ==
    <<Expect("GET", "pulls_by_author", {Author})>>
      \o (IF n = 1
          THEN (IF v = "bot" THEN <<Expect("GET", "repo", {<<>>})>> ELSE <<>>)
                 \o <<Expect("POST", "comment_welcome", {Author})>>
          ELSE <<>>)

AloneRequirements(fs) ==
    IF check_pr_requirements(fs) # <<>>
    THEN <<Expect("POST", "comment_requirements", {check_pr_requirements(fs)})>> ELSE <<>>

AloneReview(v, key, fs, answer) ==
    IF key /\ Len(fs) <= 5
    THEN <<Expect("POST", "suggest", {Len(Take(fs, 3))})>>
           \o (IF (v = "app" /\ answer # "none") \/ (v = "bot" /\ answer = "text")
               THEN <<Expect("POST", "comment_review", {answer})>> ELSE <<>>)
    ELSE <<>>

\* pull_request / opened, given the answers of the platform and of the suggester
AloneOpened(v, key, history, fs, n, answer) ==
    <<Expect("GET", "files", {<<>>}), Expect("POST", "labels", {auto_label_pr(v, fs)})>>
      \o (IF v = "app"
          THEN AloneSecurity(v, fs) \o AloneWelcome(v, n) \o AloneReview(v, key, fs, answer)
                 \o <<Expect("POST", "comment_summary", {generate_pr_summary(fs)})>>
          ELSE AloneReviewers(fs, history) \o AloneWelcome(v, n) \o AloneRequirements(fs)
                 \o AloneSecurity(v, fs) \o AloneReview(v, key, fs, answer))

\* a well-formed command, given the closed pull requests the platform lists
AloneCommand(v, comment, closed) ==
    LET cmd == SplitWs(Lower(comment))[1]
        reply(kind, args) == IF v = "bot" THEN <<Expect("POST", kind, args)>> ELSE <<>>
    IN  IF cmd = t_help THEN <<Expect("POST", "comment_help", {<<>>})>>
        ELSE IF StartsWith(cmd, t_assign)
          THEN <<Expect("POST", "assignees", {<<Assignee(comment)>>})>>
                 \o reply("comment_assigned", {Assignee(comment)})
        ELSE IF StartsWith(cmd, t_label)
          THEN <<Expect("POST", "labels", {<<LabelArg(comment)>>})>>
                 \o reply("comment_labelled", {LabelReply(LabelArg(comment))})
        ELSE IF cmd = t_close
          THEN <<Expect("PATCH", "state", {"closed"})>> \o reply("comment_closed", {<<>>})
        ELSE IF cmd = t_changelog
          THEN <<Expect("GET", "pulls_closed", {<<>>}),
                 Expect("POST", "comment_changelog", {Changelog(v, closed)})>>
        ELSE IF cmd = t_joke
          THEN <<Expect("POST", "comment_joke", 1..(IF v = "app" THEN AppJokes ELSE BotJokes))>>
        ELSE <<>>

\* the calls of handler h, from its delivery and the answers it was given
AloneCalls(h) ==
    LET d == dlv[h]
    IN  IF d.event = "pull_request" /\ d.action = "opened"
          THEN AloneOpened(variant, openaiKey, repoHistory, files[h], nprs[h], review[h])
        ELSE IF d.event = "pull_request" /\ d.action = "closed" /\ d.merged = "true"
          THEN <<Expect("POST", "comment_thanks", {Author})>>
        ELSE IF d.event = "issues" /\ d.action = "opened" /\ issue_labels(variant, d.title) # <<>>
          THEN <<Expect("POST", "labels", {issue_labels(variant, d.title)})>>
        ELSE IF d.event = "issue_comment" /\ d.action = "created"
          THEN AloneCommand(variant, Strip(d.body), prs[h])
        ELSE <<>>

\* C14: with two deliveries for different pull requests or issues in progress
\* at once, under every interleaving each handler issues the calls it would
\* issue alone for its delivery and the answers it was given: at every moment
\* its calls are the beginning of that sequence, and the whole of it at the end
C14_SameAsAlone ==
    \A h \in HandlerIds :
        LET alone == AloneCalls(h)
        IN  /\ Len(calls[h]) <= Len(alone)
            /\ \A i \in 1..Len(calls[h]) :
                 /\ calls[h][i].op = alone[i].op
                 /\ calls[h][i].kind = alone[i].kind
                 /\ calls[h][i].arg \in alone[i].args
            /\ Done(h) => (Len(calls[h]) = Len(alone) /\ resp[h] = 200)

\* two opened pull requests with different files are in progress at once, the
\* first about to post its summary, the second past its security comment
C14_Witness ==
    /\ Opened(1) /\ Opened(2) /\ variant = "app"
    /\ pc[1] = "summary" /\ pc[2] = "welcome"
    /\ files[1] # files[2]
    /\ HasCall(1, "comment_security") /\ HasCall(2, "comment_security")

\* labels only the file-type rules give, and labels only the directory rules
\* give ('frontend' is given by both)
TypeLabelNames == {"documentation", "tests", "config", "styling", "docker", "database",
                   "api", "security", "performance", "ci/cd"}
DirLabelNames == {"backend", "mobile", "infrastructure"}

\* the lower-cased name of the only file of a one-file pull request
OnlyName(h) == Lower(files[h][1].filename)

\* what the claim says of one file: one file-type label at most, one directory
\* label at most, and its two examples
OneLabelPerChain(L, name) ==
    /\ Cardinality(L \cap TypeLabelNames) <= 1
    /\ Cardinality(L \cap DirLabelNames) <= 1
    /\ (Contains(name, w_test) /\ EndsWith(name, <<".", "p", "y">>)) => {"python", "tests"} \subseteq L
    /\ (Contains(name, w_test) /\ EndsWith(name, <<".", "m", "d">>)) =>
          ("documentation" \in L /\ "tests" \notin L)

\* C15 as stated, for both programs: each file adds at most one label of the
\* file-type chain (the first rule that matches) and at most one of the
\* directory chain, independently of the language rule; a path with 'test'
\* ending in '.py' gives python and tests, one ending in '.md' with 'test'
\* gives documentation and not tests
C15_FirstMatchChains ==
    \A i \in LabelCalls(1) :
        Len(files[1]) = 1 => OneLabelPerChain(calls[1][i].arg, OnlyName(1))

\* the label of the first rule of a chain that matches, no earlier one matching
ChainPick(rules, name) ==
    {rules[r].label : r \in {q \in 1..Len(rules) :
        /\ RuleMatches(rules[q], name)
        /\ \A p \in 1..(q - 1) : ~RuleMatches(rules[p], name)}}

\* github_app.py: the language of the extension, and every content label one
\* of whose fragments occurs in the name
TableLabels(name) ==
    {LANGUAGE_LABELS[j].label : j \in {q \in 1..Len(LANGUAGE_LABELS) :
        EndsWith(name, LANGUAGE_LABELS[q].ext)}}
      \cup {CONTENT_LABELS[j].label : j \in {q \in 1..Len(CONTENT_LABELS) :
              ContainsAny(name, CONTENT_LABELS[q].extensions)}}

\* C15 amended: bot.py works as stated, with three independent first-match
\* chains (language, file type, directory); github_app.py has no chain: a file
\* adds the language of its extension and the label of every content rule one
\* of whose fragments occurs in its name (docker-compose.yml gives config and
\* docker), never tests and never a directory label
C15_PerProgram ==
    \A i \in LabelCalls(1) :
        LET L == calls[1][i].arg \ SizeLabels
            names == {Lower(files[1][k].filename) : k \in 1..Len(files[1])}
        IN  IF variant = "bot"
            THEN /\ L = UNION {ChainPick(BotLanguageRules, n) \cup ChainPick(BotFileTypeRules, n)
                                 \cup ChainPick(BotDirectoryRules, n) : n \in names}
                 /\ Len(files[1]) = 1 => OneLabelPerChain(L, OnlyName(1))
            ELSE /\ L = UNION {TableLabels(n) : n \in names}
                 /\ "tests" \notin L
                 /\ L \cap DirLabelNames = {}
                 /\ <<"d", "o", "c", "k", "e", "r", "-", "c", "o", "m", "p", "o", "s", "e", ".", "y", "m", "l">> \in names => {"config", "docker"} \subseteq L

\* bot.py labelled a pull request whose only file is docs/test_plan.md as
\* documentation and not as tests
C15_Witness ==
    /\ variant = "bot" /\ Len(files[1]) = 1 /\ OnlyName(1) = <<"d", "o", "c", "s", "/", "t", "e", "s", "t", "_", "p", "l", "a", "n", ".", "m", "d">>
    /\ \E i \in LabelCalls(1) :
         "documentation" \in calls[1][i].arg /\ "tests" \notin calls[1][i].arg

\* the files whose commits the platform returned to handler h
CommitsReturned(h) ==
    {calls[h][k].arg : k \in {q \in 1..Len(calls[h]) :
        calls[h][q].kind = "commits" /\ calls[h][q].out = "ok"}}

\* the authors among the first 3 returned commits of a changed file
RecentAuthors(h) ==
    UNION {{FileHistory(repoHistory, i).commits[j] :
              j \in {q \in 1..Len(FileHistory(repoHistory, i).commits) : q <= 3}} :
           i \in CommitsReturned(h)}

ReviewerRequests(h) ==
    {k \in 1..Len(calls[h]) : calls[h][k].kind = "requested_reviewers"}

\* C16: the reviewer request of an opened pull request names at most 3 logins,
\* never the author of the pull request, only authors of the first 3 returned
\* commits of a changed file, and is not issued when there is no such candidate
C16_ReviewerRequest ==
    Opened(1) =>
      /\ Cardinality(ReviewerRequests(1)) <= 1
      /\ \A k \in ReviewerRequests(1) :
           /\ calls[1][k].op = "POST"
           /\ Cardinality(calls[1][k].arg) <= 3
           /\ Author \notin calls[1][k].arg
           /\ calls[1][k].arg \subseteq RecentAuthors(1) \ {NoAuthor}
           /\ calls[1][k].arg # {}
      /\ RecentAuthors(1) \ {Author, NoAuthor} = {} => ReviewerRequests(1) = {}

\* four candidates were found, the author being among the recent committers,
\* and three of them were asked for a review
C16_Witness ==
    /\ Opened(1) /\ Author \in RecentAuthors(1)
    /\ Cardinality(RecentAuthors(1) \ {Author, NoAuthor}) = 4
    /\ \E k \in ReviewerRequests(1) : Cardinality(calls[1][k].arg) = 3

\* every call to the platform was answered; the suggester and the posting of
\* its text may have failed
PlatformOk(h) ==
    \A i \in 1..Len(calls[h]) :
        calls[h][i].kind \notin {"suggest", "comment_review"} => calls[h][i].out = "ok"

\* C17: the review-suggestion comment is posted only when a suggester is
\* configured, the pull request has at most 5 files and the suggester returned
\* non-empty text; and whatever the suggester did, the summary comment is
\* posted exactly once, as the last platform call; stated for github_app.py,
\* the program that posts a summary
C17_ReviewThenSummary ==
    (Opened(1) /\ Complete(1) /\ variant = "app") =>
      /\ HasCall(1, "comment_review") =>
           (openaiKey /\ Len(files[1]) <= 5 /\ review[1] = "text")
      /\ (Done(1) /\ PlatformOk(1) /\ HasCall(1, "labels")) =>
           /\ CountCalls(1, "comment_summary") = 1
           /\ calls[1][Len(calls[1])].kind = "comment_summary"

\* the welcome comments posted for the author, over all handlers
Welcomes == CountCalls(1, "comment_welcome") + CountCalls(2, "comment_welcome")

\* handler h has read the author's count off the platform
CountRead(h) ==
    \E i \in 1..Len(calls[h]) :
        calls[h][i].kind = "pulls_by_author" /\ calls[h][i].out = "ok"

\* C18: with the author's count never decreasing and every opened pull request
\* delivered once, at most one welcome comment is posted for the author under
\* every interleaving; a handler reads a count of at least 1 and at most the
\* current one; and when every handler that read the count found both pull
\* requests of a new author already created, no welcome comment is posted
C18_AtMostOneWelcome ==
    /\ Welcomes <= 1
    /\ \A h \in HandlerIds : CountRead(h) => (nprs[h] >= 1 /\ nprs[h] <= created)
    /\ (\A h \in HandlerIds : CountRead(h) => nprs[h] >= 2) => Welcomes = 0

\* both pull requests of a new author were created before either handler read
\* the count: both handlers are past the welcome step and nobody was welcomed
C18_Witness ==
    /\ created = 2 /\ pending = {}
    /\ \A h \in HandlerIds :
         /\ pc[h] = After(variant, "welcome") /\ AllOk(h)
         /\ CountRead(h) /\ nprs[h] = 2
    /\ Welcomes = 0


====
